---- MODULE Spec2Model ----
(***************************************************************************)
(* Model of the real-time audio transport of the piano front end:          *)
(*   RingBuffer       (ring_buffer.js)  - the byte ControlQueue             *)
(*   AudioRingBuffer  (types.ts)        - the frame AudioStreamBuffer       *)
(*   VitalSDK / piano_worker.js / piano_worklet.js - the bring-up handshake *)
(* Every access to shared memory is one step, so that the producer and the *)
(* consumer of a buffer interleave at the granularity of single loads and  *)
(* stores.                                                                 *)
(***************************************************************************)
EXTENDS Integers, Sequences, FiniteSets, TLC

(***************************************************************************)
(* Bounds of the model.                                                    *)
(***************************************************************************)
\* data bytes of the RingBuffer (the SDK builds it with 4096)
CmdSize == 6
\* write calls made on the RingBuffer in one behaviour
MaxCmdWrites == 4
\* frames of the AudioRingBuffer (the SDK builds it with 4096)
AudioCap == 3
\* write calls made on the AudioRingBuffer in one behaviour
MaxAudioWrites == 3
\* frames of one render block of the worker and of one quantum of the worklet
\* (both 128 in the program)
BlockFrames == 1
\* targetBufferFrames of the init message (VitalSDK.bufferSize, default 1024)
TargetAhead == 2
\* control-API calls (noteOn, noteOff) followed
MaxNotes == 2
\* loadPreset calls followed
MaxPresets == 1

\* the largest number of calls of the owner of a VitalSDK object followed
MaxApiCalls == 2

\* the largest number of blocks the render loop writes when its run is
\* followed in two steps: one more than the audio buffer holds
MaxRenders == 4
\* ... and the blocks rendered when each statement of the render loop is a
\* step of its own
MaxLoopBlocks == 3
\* size in bytes of the RingBuffer that takes a payload too long for the
\* length prefix (4096 in index.ts)
LargeSize == 260
\* write calls followed on that buffer
MaxLargeWrites == 3
\* calls of initialize() followed after the first
MaxRetries == 1
\* distance of the wrap-regime start index below the largest Int32
WrapMargin == 3

(***************************************************************************)
(* JavaScript numbers and typed arrays.                                    *)
(***************************************************************************)
\* largest value of an Int32Array cell (the two header cells)
MaxInt32 == 2147483647
MinInt32 == (-MaxInt32) - 1
\* magnitude at which an exact difference of two cells is clipped below
Far == MaxInt32 \div 2
\* reading a typed array outside its range
Undefined == -1

\* the value an Int32Array cell holds after storing a + n (a a cell value,
\* 0 <= n < Far): ToInt32 wraps past MaxInt32 to MinInt32
ToInt32Add(a, n) ==
    IF a > MaxInt32 - n THEN MinInt32 + ((n - (MaxInt32 - a)) - 1) ELSE a + n

\* a - b on JavaScript numbers (no wrap). Two cells of opposite sign can
\* differ by more than 2^31; every use compares the difference with a small
\* number, so a difference beyond +-Far is clipped to +-Far.
NumSub(a, b) ==
    IF a < 0 /\ b >= 0 /\ a + Far < b THEN -Far
    ELSE IF a >= 0 /\ b < 0 /\ a - Far > b THEN Far
    ELSE a - b

\* a % n of JavaScript: the remainder takes the sign of the dividend
\* (-0 is used as index 0)
JsRem(a, n) ==
    IF a >= 0 THEN a % n
    ELSE IF a % n = 0 THEN 0 ELSE (a % n) - n

\* (a + n) % size for a cell value a and a small n >= 0; the sum is a
\* JavaScript number and does not wrap
RemAdd(a, n, size) ==
    IF a >= 0 THEN ((a % size) + n) % size ELSE JsRem(a + n, size)

\* typedArray[idx] = v: a store outside the array is ignored
ArrSet(arr, idx, v) ==
    IF idx \in DOMAIN arr THEN [arr EXCEPT ![idx] = v] ELSE arr

\* typedArray[idx]: undefined outside the array
ArrGet(arr, idx) ==
    IF idx \in DOMAIN arr THEN arr[idx] ELSE Undefined

\* the value a Uint8Array cell holds after storing v
ToUint8(v) == v % 256

VARIABLES
    rbHeader,     \* RingBuffer.header: [0] write index, [1] read index
    rbBuffer,     \* RingBuffer.buffer: the data bytes
    wr,           \* the producer's RingBuffer.write call in progress
    rd,           \* the consumer's RingBuffer.read call in progress
    rbCalls,      \* number of write calls made
    rbAccepted,   \* payloads whose write returned true, in call order
    rbDelivered,  \* the views passed to the read callback, in order
    rbQuiet,      \* the running or last drain began with no write in progress
                  \* and no write has begun since
    abHeader,     \* AudioRingBuffer.header: [0] write index, [1] read index (frames)
    abBuffer,     \* AudioRingBuffer.buffer: interleaved samples
    aw,           \* the producer's AudioRingBuffer.write call in progress
    ar,           \* the consumer's AudioRingBuffer.read call in progress
    out,          \* outputChannels: out[0] the left, out[1] the right array
    abCalls,      \* number of write calls made
    abFrames,     \* number of frames offered to write so far
    abAccepted,   \* frames accepted by write (it returned their count), in order
    abDelivered,  \* frames handed out by reads that returned true, in order
    sdk,          \* the VitalSDK object on the main thread
    wk,           \* piano_worker.js: its module variables and its pending loop
    wl,           \* piano_worklet.js: VitalProcessor
    toWorker,     \* messages posted to the worker, not yet handled
    toWorklet,    \* messages posted to the worklet port, not yet handled
    fromWorker,   \* messages posted by the worker, not yet handled
    fromWorklet,  \* messages posted by the worklet, not yet handled
    engineLog,    \* the calls made on the worker's engine, in order
    posted,       \* types of the messages the worker has posted, in order
    received,     \* <<sender, type>> of the messages the main thread has handled
    store,        \* useAudioStore: its refs and the position of initialize()
    legacy,       \* the VitalSDK object of the ScriptProcessor mode
    mainEngineLog, \* the calls made on the engine of the main thread, in order
    noteLog,      \* the noteOn and noteOff calls made on the store, in order
    presetLog,    \* the loadPreset calls made on the store and how each settled
    clock,        \* paced scheduling: "quantum" once the render loop has yielded
                  \* with nothing to do since the last process(), else "loop"
    api           \* the calls made on the methods of a VitalSDK object by its
                  \* owner: their number, and what the last one did

rbVars == <<rbHeader, rbBuffer, wr, rd, rbCalls, rbAccepted, rbDelivered, rbQuiet>>

abVars == <<abHeader, abBuffer, aw, ar, out, abCalls, abFrames, abAccepted, abDelivered>>

hsVars == <<sdk, wk, wl, toWorker, toWorklet, fromWorker, fromWorklet,
            engineLog, posted, received>>

storeVars == <<store, legacy, mainEngineLog, noteLog, presetLog, api>>
appVars == <<storeVars, clock>>

vars == <<rbHeader, rbBuffer, wr, rd, rbCalls, rbAccepted, rbDelivered, rbQuiet,
          abHeader, abBuffer, aw, ar, out, abCalls, abFrames, abAccepted, abDelivered,
          sdk, wk, wl, toWorker, toWorklet, fromWorker, fromWorklet,
          engineLog, posted, received, store, legacy, mainEngineLog, noteLog,
          presetLog, clock, api>>

\* what a RingBuffer step, and what an AudioRingBuffer step, leaves alone
notRb == <<abVars, hsVars, appVars>>
notAb == <<rbVars, hsVars, appVars>>

(***************************************************************************)
(* RingBuffer (ring_buffer.js)                                             *)
(***************************************************************************)
\* the payloads a caller passes: 1 or 2 bytes, or one byte more than fits
PayloadLens == {1, 2, CmdSize}

\* the k-th payload: len bytes, each the call number k
Payload(k, len) == [i \in 1..len |-> k]

WrIdle == [pc |-> "idle", data |-> <<>>, available |-> 0, writeIndex |-> 0,
           i |-> 0, ret |-> "none"]
\* readIndex is the local cursor of read, a JavaScript number: kind "int" when
\* it is at most MaxInt32, "over" when it is larger (readIndex then holds its
\* ToInt32 value), "nan" after adding an undefined length
RdIdle == [pc |-> "idle", writeIndex |-> 0, readIndex |-> 0, kind |-> "int",
           length |-> 0, i |-> 0, temp |-> <<>>]

\* an empty RingBuffer through which s bytes have passed
RbInitAt(s) ==
    /\ rbHeader = [k \in {0, 1} |-> s]
    /\ rbBuffer = [k \in 0..(CmdSize - 1) |-> 0]
    /\ wr = WrIdle
    /\ rd = RdIdle
    /\ rbCalls = 0
    /\ rbAccepted = <<>>
    /\ rbDelivered = <<>>
    /\ rbQuiet = FALSE

\* constructor(null, size): a zeroed SharedArrayBuffer, both indices 0
RbInit == RbInitAt(0)

\* the buffer after MaxInt32 - WrapMargin bytes were written and drained: the
\* next records carry the write index past the largest Int32
RbInitWrap == RbInitAt(MaxInt32 - WrapMargin)

\* the values a cell of the Uint8Array data region holds, line 23: a length
\* is stored modulo this
PrefixRange == 256

\* an empty RingBuffer large enough for a payload of PrefixRange bytes
RbInitLarge ==
    /\ rbHeader = [k \in {0, 1} |-> 0]
    /\ rbBuffer = [k \in 0..(LargeSize - 1) |-> 0]
    /\ wr = WrIdle
    /\ rd = RdIdle
    /\ rbCalls = 0
    /\ rbAccepted = <<>>
    /\ rbDelivered = <<>>
    /\ rbQuiet = FALSE

\* this.size: the bytes of the data region, lines 14-23
RbSize == Cardinality(DOMAIN rbBuffer)

\* available = size - (writeIndex - readIndex)
RbAvailable(writeIndex, readIndex) == RbSize - NumSub(writeIndex, readIndex)

\* RbRejects with the bound off by one: a record that fits exactly is refused
RbRejects_OffByOne(available, required) == available <= required

\* the overflow test of write
RbRejects(available, required) == available < required

\* write(data), lines 40-51: load both indices, reject when the record does
\* not fit
RbWriteBegin ==
    /\ wr.pc = "idle"
    /\ rbCalls < MaxCmdWrites
    /\ \E len \in PayloadLens :
        LET data == Payload(rbCalls + 1, len)
            required == Len(data) + 1
            writeIndex == rbHeader[0]
            readIndex == rbHeader[1]
            available == RbAvailable(writeIndex, readIndex)
        IN  IF RbRejects(available, required)
            THEN wr' = [WrIdle EXCEPT !.data = data, !.available = available,
                                      !.ret = "false"]
            ELSE wr' = [pc |-> "length", data |-> data, available |-> available,
                        writeIndex |-> writeIndex, i |-> 0, ret |-> "none"]
    /\ rbCalls' = rbCalls + 1
    /\ rbQuiet' = FALSE
    /\ UNCHANGED <<notRb, rbHeader, rbBuffer, rd, rbAccepted, rbDelivered>>

\* RbWriteLength publishing the new write index before the payload is stored
RbWriteLength_PublishEarly ==
    /\ wr.pc = "length"
    /\ rbBuffer' = ArrSet(rbBuffer, JsRem(wr.writeIndex, RbSize), ToUint8(Len(wr.data)))
    /\ rbHeader' = [rbHeader EXCEPT ![0] = ToInt32Add(wr.writeIndex, Len(wr.data) + 1)]
    /\ wr' = [wr EXCEPT !.pc = IF Len(wr.data) > 0 THEN "data" ELSE "publish"]
    /\ UNCHANGED <<notRb, rd, rbCalls, rbAccepted, rbDelivered, rbQuiet>>

\* line 54: this.buffer[writeIndex % this.size] = length
RbWriteLength ==
    /\ wr.pc = "length"
    /\ rbBuffer' = ArrSet(rbBuffer, JsRem(wr.writeIndex, RbSize), ToUint8(Len(wr.data)))
    /\ wr' = [wr EXCEPT !.pc = IF Len(wr.data) > 0 THEN "data" ELSE "publish"]
    /\ UNCHANGED <<notRb, rbHeader, rd, rbCalls, rbAccepted, rbDelivered, rbQuiet>>

\* RbDataSlot without the wrap to the start of the data region
RbDataSlot_NoWrap(index, i) == (index % RbSize) + 1 + i

\* (index + 1 + i) % size: the slot of byte i (0-based) of the payload of the
\* record that starts at index (the sum is a JavaScript number: no wrap)
RbDataSlot(index, i) == RemAdd(index, 1 + i, RbSize)

\* lines 57-59: this.buffer[(writeIndex + 1 + i) % this.size] = data[i]
RbWriteData ==
    /\ wr.pc = "data"
    /\ rbBuffer' = ArrSet(rbBuffer, RbDataSlot(wr.writeIndex, wr.i),
                          ToUint8(wr.data[wr.i + 1]))
    /\ wr' = [wr EXCEPT !.i = wr.i + 1,
                        !.pc = IF wr.i + 1 < Len(wr.data) THEN "data" ELSE "publish"]
    /\ UNCHANGED <<notRb, rbHeader, rd, rbCalls, rbAccepted, rbDelivered, rbQuiet>>

\* the write index a write publishes
RbPublished(writeIndex, required) == ToInt32Add(writeIndex, required)

\* line 62: Atomics.store(this.header, 0, writeIndex + required); return true
RbWritePublish ==
    /\ wr.pc = "publish"
    /\ rbHeader' = [rbHeader EXCEPT ![0] = RbPublished(wr.writeIndex, Len(wr.data) + 1)]
    /\ rbAccepted' = Append(rbAccepted, wr.data)
    /\ wr' = [WrIdle EXCEPT !.data = wr.data, !.available = wr.available,
                            !.ret = "true"]
    /\ UNCHANGED <<notRb, rbBuffer, rd, rbCalls, rbDelivered, rbQuiet>>

\* lines 72-77: load both indices; return at once when the queue is empty
RbReadBegin ==
    /\ rd.pc = "idle"
    /\ rd' = IF rbHeader[1] = rbHeader[0]
             THEN RdIdle
             ELSE [RdIdle EXCEPT !.pc = "loop", !.writeIndex = rbHeader[0],
                                 !.readIndex = rbHeader[1]]
    /\ rbQuiet' = (wr.pc = "idle")
    /\ UNCHANGED <<notRb, rbHeader, rbBuffer, wr, rbCalls, rbAccepted, rbDelivered>>

\* RbLoopCond loading the write index again on each turn
RbLoopCond_Reload(r) == r.kind = "int" /\ r.readIndex < rbHeader[0]

\* line 84: while (readIndex < writeIndex)
RbLoopCond(r) == r.kind = "int" /\ r.readIndex < r.writeIndex

\* line 86: const length = this.buffer[readIndex % this.size]
RbReadLength ==
    /\ rd.pc = "loop"
    /\ RbLoopCond(rd)
    /\ LET length == ArrGet(rbBuffer, JsRem(rd.readIndex, RbSize))
       IN  rd' = [rd EXCEPT !.length = length, !.i = 0, !.temp = <<>>,
                            !.pc = IF length > 0 THEN "data" ELSE "callback"]
    /\ UNCHANGED <<notRb, rbHeader, rbBuffer, wr, rbCalls, rbAccepted, rbDelivered, rbQuiet>>

\* lines 94-96: this._tempBuffer[i] = this.buffer[(readIndex + 1 + i) % this.size]
RbReadData ==
    /\ rd.pc = "data"
    /\ rd' = [rd EXCEPT !.temp = Append(rd.temp,
                                ArrGet(rbBuffer, RbDataSlot(rd.readIndex, rd.i))),
                        !.i = rd.i + 1,
                        !.pc = IF rd.i + 1 < rd.length THEN "data" ELSE "callback"]
    /\ UNCHANGED <<notRb, rbHeader, rbBuffer, wr, rbCalls, rbAccepted, rbDelivered, rbQuiet>>

\* readIndex += (length + 1) on the local cursor
RbAdvance(r) ==
    IF r.length = Undefined THEN [r EXCEPT !.kind = "nan", !.readIndex = 0]
    ELSE [r EXCEPT !.readIndex = ToInt32Add(r.readIndex, r.length + 1),
                   !.kind = IF r.readIndex > MaxInt32 - (r.length + 1)
                            THEN "over" ELSE "int"]

\* lines 98-101: callback(this._tempBuffer.subarray(0, length)), then advance
\* (an undefined length passes the whole temp buffer: the view <<Undefined>>)
RbReadCallback ==
    /\ rd.pc = "callback"
    /\ rbDelivered' = Append(rbDelivered,
                             IF rd.length = Undefined THEN <<Undefined>> ELSE rd.temp)
    /\ rd' = [RbAdvance(rd) EXCEPT !.pc = "loop"]
    /\ UNCHANGED <<notRb, rbHeader, rbBuffer, wr, rbCalls, rbAccepted, rbQuiet>>

\* line 105: Atomics.store(this.header, 1, readIndex), once the loop is left
RbReadStore ==
    /\ rd.pc = "loop"
    /\ ~RbLoopCond(rd)
    /\ rbHeader' = [rbHeader EXCEPT ![1] = rd.readIndex]
    /\ rd' = RdIdle
    /\ UNCHANGED <<notRb, rbBuffer, wr, rbCalls, rbAccepted, rbDelivered, rbQuiet>>

RbNext ==
    \/ RbWriteBegin
    \/ RbWriteLength
    \/ RbWriteData
    \/ RbWritePublish
    \/ RbReadBegin
    \/ RbReadLength
    \/ RbReadData
    \/ RbReadCallback
    \/ RbReadStore


(***************************************************************************)
(* AudioRingBuffer (types.ts)                                              *)
(***************************************************************************)
\* channelCount of every buffer the SDK, the worker and the worklet build
ChannelCount == 2

\* this.buffer.length: the Float32Array over the data region
BufferLength == AudioCap * ChannelCount

\* frames a caller writes in one call: 1 or 2, or one more than the capacity
AudioWriteLens == {1, 2, AudioCap + 1}

\* frames a caller asks to read in one call
AudioReadLens == {1, 2}

\* frames of one process() call of the worklet: channelL.length
QuantumFrames == BlockFrames

\* length of the output arrays: the longest read
OutLength ==
    CHOOSE m \in AudioReadLens \cup {QuantumFrames} :
        \A n \in AudioReadLens \cup {QuantumFrames} : n <= m

\* the two samples of the j-th frame offered to write
Frame(j) == <<(10 * j) + 1, (10 * j) + 2>>

\* inputInterleaved for n frames that follow the first j frames: L, R, L, R...
Interleaved(j, n) ==
    [k \in 1..(n * ChannelCount) |->
        Frame(j + ((k + 1) \div ChannelCount))[((k - 1) % ChannelCount) + 1]]

\* the frames of an interleaved array
FramesOf(input) ==
    [f \in 1..(Len(input) \div ChannelCount) |->
        <<input[(2 * f) - 1], input[2 * f]>>]

AwIdle == [pc |-> "idle", input |-> <<>>, available |-> 0, writeIndex |-> 0,
           k |-> 0, ret |-> -1]
ArIdle == [pc |-> "idle", frames |-> 0, available |-> 0, readIndex |-> 0,
           k |-> 0, ret |-> "none"]

\* an empty AudioRingBuffer through which s frames have passed
AbInitAt(s) ==
    /\ abHeader = [k \in {0, 1} |-> s]
    /\ abBuffer = [k \in 0..(BufferLength - 1) |-> 0]
    /\ aw = AwIdle
    /\ ar = ArIdle
    /\ out = [c \in {0, 1} |-> [i \in 0..(OutLength - 1) |-> 0]]
    /\ abCalls = 0
    /\ abFrames = 0
    /\ abAccepted = <<>>
    /\ abDelivered = <<>>

\* constructor(null, 2, frameCapacity): a zeroed SharedArrayBuffer
AbInit == AbInitAt(0)

\* the buffer after MaxInt32 - WrapMargin frames were written and read
AbInitWrap == AbInitAt(MaxInt32 - WrapMargin)

\* availableWrite(): this.capacity - (writeIndex - readIndex)
availableWrite == AudioCap - NumSub(abHeader[0], abHeader[1])

\* availableRead(): writeIndex - readIndex
availableRead == NumSub(abHeader[0], abHeader[1])

\* AbRejects refusing a run that fits exactly
AbRejects_OffByOne(available, framesToWrite) == available <= framesToWrite

\* the overflow test of write: available < framesToWrite
AbRejects(available, framesToWrite) == available < framesToWrite

\* AbUnderrun never failing: an empty buffer is read too
AbUnderrun_Never(available, framesToRead) == FALSE

\* AbUnderrun failing only on an empty buffer: a short buffer is read partly
AbUnderrun_Partial(available, framesToRead) == available <= 0

\* the underrun test of read: available < framesToRead
AbUnderrun(available, framesToRead) == available < framesToRead

\* offset = (index % this.capacity) * this.channelCount
AbOffset(index) == JsRem(index, AudioCap) * ChannelCount

\* AbSlot without the split at the end of the buffer
AbSlot_NoSplit(offset, samples, k) == offset + k

\* the slot of sample k (0-based) of a run of `samples` samples that starts at
\* offset: contiguous, or split in a chunk up to the end of the buffer and a
\* chunk from its start
AbSlot(offset, samples, k) ==
    IF offset + samples <= BufferLength THEN offset + k
    ELSE IF k < BufferLength - offset THEN offset + k
    ELSE k - (BufferLength - offset)

\* write(inputInterleaved), lines 92-99: availableWrite(), reject when the
\* frames do not fit; Float32Array.set with a negative offset throws
AbWriteBegin ==
    /\ aw.pc = "idle"
    /\ abCalls < MaxAudioWrites
    /\ \E n \in AudioWriteLens :
        LET input == Interleaved(abFrames, n)
            framesToWrite == Len(input) \div ChannelCount
        IN  /\ abFrames' = abFrames + n
            /\ aw' = IF AbRejects(availableWrite, framesToWrite)
                     THEN [AwIdle EXCEPT !.input = input,
                                         !.available = availableWrite, !.ret = 0]
                     ELSE IF AbOffset(abHeader[0]) < 0
                     THEN [AwIdle EXCEPT !.input = input,
                                         !.available = availableWrite,
                                         !.ret = Undefined]
                     ELSE [pc |-> "copy", input |-> input,
                           available |-> availableWrite,
                           writeIndex |-> abHeader[0], k |-> 0, ret |-> -1]
    /\ abCalls' = abCalls + 1
    /\ UNCHANGED <<notAb, abHeader, abBuffer, ar, out, abAccepted, abDelivered>>

\* lines 106-114: this.buffer.set(...), one sample of the copy
AbWriteCopy ==
    /\ aw.pc = "copy"
    /\ abBuffer' = ArrSet(abBuffer,
                          AbSlot(AbOffset(aw.writeIndex), Len(aw.input), aw.k),
                          aw.input[aw.k + 1])
    /\ aw' = [aw EXCEPT !.k = aw.k + 1,
                        !.pc = IF aw.k + 1 < Len(aw.input) THEN "copy" ELSE "publish"]
    /\ UNCHANGED <<notAb, abHeader, ar, out, abCalls, abFrames, abAccepted, abDelivered>>

\* AbPublished counting samples instead of frames
AbPublished_Samples(writeIndex, framesToWrite) ==
    ToInt32Add(writeIndex, framesToWrite * ChannelCount)

\* the write index a write of framesToWrite frames publishes
AbPublished(writeIndex, framesToWrite) == ToInt32Add(writeIndex, framesToWrite)

\* lines 117-118: Atomics.store(this.header, 0, writeIndex + framesToWrite);
\* return framesToWrite
AbWritePublish ==
    /\ aw.pc = "publish"
    /\ LET framesToWrite == Len(aw.input) \div ChannelCount
       IN  /\ abHeader' = [abHeader EXCEPT
                              ![0] = AbPublished(aw.writeIndex, framesToWrite)]
           /\ aw' = [AwIdle EXCEPT !.input = aw.input, !.available = aw.available,
                                   !.ret = framesToWrite]
    /\ abAccepted' = abAccepted \o FramesOf(aw.input)
    /\ UNCHANGED <<notAb, abBuffer, ar, out, abCalls, abFrames, abDelivered>>

\* read(outputChannels, framesToRead), lines 128-134: availableRead(), fail on
\* underrun
AbReadBegin ==
    /\ ar.pc = "idle"
    /\ \E n \in AudioReadLens :
        ar' = IF AbUnderrun(availableRead, n)
              THEN [ArIdle EXCEPT !.frames = n, !.available = availableRead,
                                  !.ret = "false"]
              ELSE [pc |-> "copy", frames |-> n, available |-> availableRead,
                    readIndex |-> abHeader[1], k |-> 0, ret |-> "none"]
    /\ UNCHANGED <<notAb, abHeader, abBuffer, aw, out, abCalls, abFrames,
                   abAccepted, abDelivered>>

\* lines 143-163, one sample of deinterleave: sample k of the run goes to
\* channel k % 2 at frame k \div 2
AbReadCopy ==
    /\ ar.pc = "copy"
    /\ LET samplesToRead == ar.frames * ChannelCount
           sample == ArrGet(abBuffer, AbSlot(AbOffset(ar.readIndex), samplesToRead, ar.k))
           channel == ar.k % ChannelCount
           frame == ar.k \div ChannelCount
       IN  /\ out' = [out EXCEPT ![channel] = ArrSet(out[channel], frame, sample)]
           /\ ar' = [ar EXCEPT !.k = ar.k + 1,
                               !.pc = IF ar.k + 1 < samplesToRead
                                      THEN "copy" ELSE "store"]
    /\ UNCHANGED <<notAb, abHeader, abBuffer, aw, abCalls, abFrames,
                   abAccepted, abDelivered>>

\* lines 165-166: Atomics.store(this.header, 1, readIndex + framesToRead);
\* return true
AbReadStore ==
    /\ ar.pc = "store"
    /\ abHeader' = [abHeader EXCEPT ![1] = ToInt32Add(ar.readIndex, ar.frames)]
    /\ ar' = [ArIdle EXCEPT !.frames = ar.frames, !.available = ar.available,
                            !.ret = "true"]
    /\ abDelivered' = abDelivered \o
                        [f \in 1..ar.frames |-> <<out[0][f - 1], out[1][f - 1]>>]
    /\ UNCHANGED <<notAb, abBuffer, aw, out, abCalls, abFrames, abAccepted>>

AbNext ==
    \/ AbWriteBegin
    \/ AbWriteCopy
    \/ AbWritePublish
    \/ AbReadBegin
    \/ AbReadCopy
    \/ AbReadStore

\* ---------------------------------------------------------------------------
\* The bring-up of the worklet pipeline: VitalSDK.init() on the main thread,
\* piano_worker.js and piano_worklet.js.  One action is one task of one
\* thread; inside a task the calls on the two buffers run as whole calls.
\* ---------------------------------------------------------------------------

CMD_NOTE_ON == 1
CMD_NOTE_OFF == 2

\* postMessage: the message joins the receiver's queue
Post(queue, type) == Append(queue, [type |-> type])

\* this._audioContext.sampleRate: the rate of the host's output device
SampleRate == 48000

\* volume: 1.0 of the init message; volumes are counted in tenths
InitVolume == 10

\* a || b of JavaScript on numbers: 0 is falsy
JsOr(a, b) == IF a = 0 THEN b ELSE a

\* the message {type: 'init', sampleRate, bufferSize, volume, presetData,
\* audioSab, commandSab, targetBufferFrames} of lines 203-212; init() passes
\* no preset
InitConfig ==
    [type |-> "init", sampleRate |-> SampleRate, bufferSize |-> BlockFrames,
     volume |-> InitVolume, presetData |-> "none",
     targetBufferFrames |-> sdk.bufferSize, audioSab |-> TRUE,
     commandSab |-> TRUE]

\* the catch of init(), lines 124-131: initialized = false, onError(error),
\* the error thrown on
SdkInitFailed(s, cause) ==
    [s EXCEPT !.pc = "failed", !.initialized = FALSE, !.onError = s.onError + 1,
              !.error = cause]

\* init() of the SDK the store made for the worklet mode, up to the await of
\* addModule, lines 87-109; new AudioContext or new Worker may throw
SdkInit ==
    /\ store.pc = "worklet"
    /\ sdk.pc = "new"
    /\ ~sdk.initialized
    /\ \E ok \in BOOLEAN :
        sdk' = IF ok
               THEN [sdk EXCEPT !.pc = "addModule", !.initialized = TRUE,
                                !.destroyed = FALSE,
                                !.audioContext = "running",
                                !.worker = TRUE]
               ELSE SdkInitFailed(sdk, "context")
    /\ UNCHANGED <<appVars, rbVars, abVars, wk, wl, toWorker, toWorklet, fromWorker,
                   fromWorklet, engineLog, posted, received>>

\* audioWorklet.addModule settles, lines 108-113; _initWorkletAndWorker
\* returns at once, line 138, when destroy() has dropped the context and the
\* worker meanwhile, and init() resolves
SdkAddModule ==
    /\ sdk.pc = "addModule"
    /\ \E ok \in BOOLEAN :
        sdk' = IF ~ok THEN SdkInitFailed(sdk, "worklet-module")
               ELSE IF sdk.audioContext = "running" /\ sdk.worker
               THEN [sdk EXCEPT !.pc = "executor"]
               ELSE [sdk EXCEPT !.pc = "done"]
    /\ UNCHANGED <<appVars, rbVars, abVars, wk, wl, toWorker, toWorklet, fromWorker,
                   fromWorklet, engineLog, posted, received>>

\* _initWorkletAndWorker, lines 150-199: the buffers, the worklet node, the
\* two onmessage handlers, then the region goes to the worklet; a constructor
\* that throws rejects the promise
SdkSendRegion ==
    /\ sdk.pc = "executor"
    /\ \E ok \in BOOLEAN :
        IF ok
        THEN /\ sdk' = [sdk EXCEPT !.pc = "postWorker", !.buffers = TRUE,
                                   !.workletNode = "created",
                                   !.promise = "pending"]
             /\ toWorklet' = Post(toWorklet, "init-audio-sab")
             /\ posted' = Append(posted, <<"sdk", "init-audio-sab">>)
        ELSE /\ sdk' = [SdkInitFailed(sdk, "executor") EXCEPT
                            !.promise = "rejected"]
             /\ UNCHANGED <<toWorklet, posted>>
    /\ UNCHANGED <<appVars, rbVars, abVars, wk, wl, toWorker, fromWorker, fromWorklet,
                   engineLog, received>>

\* SdkMaySendInit not waiting for the region to be sent
SdkMaySendInit_Early(s) == s.pc \in {"executor", "postWorker"}

\* worker.postMessage(config) is the statement after port.postMessage
SdkMaySendInit(s) == s.pc = "postWorker"

\* lines 201-213: the init message goes to the worker, the executor returns
SdkSendInit ==
    /\ SdkMaySendInit(sdk)
    /\ sdk' = [sdk EXCEPT !.pc = "awaiting"]
    /\ toWorker' = Append(toWorker, InitConfig)
    /\ posted' = Append(posted, <<"sdk", "init">>)
    /\ UNCHANGED <<appVars, rbVars, abVars, wk, wl, toWorklet, fromWorker, fromWorklet,
                   engineLog, received>>

\* initialize() of the store has a continuation to run: the init() it awaits
\* has settled
StoreResumes ==
    \/ store.pc = "worklet" /\ sdk.pc \in {"done", "failed"}
    \/ store.pc \in {"legacy", "fallback"} /\ legacy.pc \in {"done", "failed"}

\* the main thread is between tasks, and no continuation waits to run
SdkIdle == sdk.pc \in {"awaiting", "done", "failed"} /\ ~StoreResumes

\* SdkIsReady taking any message of the worker for its readiness
SdkIsReady_AnyMessage(data) == data.type \in {"ready", "error"}

\* data.type === 'ready', line 169
SdkIsReady(data) == data.type = "ready"

\* worker.onmessage, lines 167-186: ready connects the worklet node, calls
\* onReady and resolves; error rejects; init() continues after its await
SdkOnWorkerMessage ==
    /\ SdkIdle
    /\ fromWorker # <<>>
    /\ LET data == Head(fromWorker)
           pending == sdk.promise = "pending"
       IN  /\ sdk' = IF SdkIsReady(data)
                     THEN [sdk EXCEPT !.workletNode = "connected",
                                      !.onReady = sdk.onReady + 1,
                                      !.promise = IF pending THEN "resolved"
                                                  ELSE sdk.promise,
                                      !.pc = IF pending THEN "done" ELSE sdk.pc]
                     ELSE IF data.type = "error" /\ pending
                     THEN [SdkInitFailed(sdk, "worker-error") EXCEPT
                              !.promise = "rejected"]
                     ELSE sdk
           /\ received' = received \cup {<<"worker", data.type>>}
    /\ fromWorker' = Tail(fromWorker)
    /\ UNCHANGED <<appVars, rbVars, abVars, wk, wl, toWorker, toWorklet, fromWorklet,
                   engineLog, posted>>

\* workletNode.port.onmessage, lines 189-193: a log line, nothing else
SdkOnWorkletMessage ==
    /\ SdkIdle
    /\ fromWorklet # <<>>
    /\ received' = received \cup {<<"worklet", Head(fromWorklet).type>>}
    /\ fromWorklet' = Tail(fromWorklet)
    /\ UNCHANGED <<appVars, rbVars, abVars, sdk, wk, wl, toWorker, toWorklet, fromWorker,
                   engineLog, posted>>

\* data[i] of a record handed to the read callback (0-based)
ByteAt(data, i) == IF i < Len(data) THEN data[i + 1] ELSE Undefined

\* RingBuffer.read(callback) as one call, lines 71-106, from cursor r up to
\* the write index w loaded at its start: the records handed to the callback
\* and the read index it stores
RECURSIVE RbDrain(_, _)
RbDrain(r, w) ==
    IF ~(r < w) THEN [records |-> <<>>, readIndex |-> r]
    ELSE LET length == ArrGet(rbBuffer, JsRem(r, RbSize))
             data == [i \in 1..length |-> ArrGet(rbBuffer, RbDataSlot(r, i - 1))]
             rest == RbDrain(r + length + 1, w)
         IN  [records |-> <<data>> \o rest.records, readIndex |-> rest.readIndex]

\* NoteVelocity dividing by 128
NoteVelocity_Per128(byte) == <<byte, 128>>

\* data[2] / 127.0: the velocity handed to the engine, a fraction
\* <<numerator, denominator>>
NoteVelocity(byte) == <<byte, 127>>

\* NoteCalls with a callback that calls nothing
NoteCalls_None(records) == <<>>

\* the callback of processCommands, lines 193-200, on each record in turn:
\* the engine calls it makes
RECURSIVE NoteCalls(_)
NoteCalls(records) ==
    IF records = <<>> THEN <<>>
    ELSE LET data == Head(records)
             cmd == ByteAt(data, 0)
         IN  (IF cmd = CMD_NOTE_ON
              THEN << <<"note_on", ByteAt(data, 1), NoteVelocity(ByteAt(data, 2))>> >>
              ELSE IF cmd = CMD_NOTE_OFF
              THEN << <<"note_off", ByteAt(data, 1)>> >>
              ELSE <<>>)
             \o NoteCalls(Tail(records))

\* AudioRingBuffer.write(input) as one call, lines 91-119: the header and the
\* data it leaves and what it returns
AbWrite(input) ==
    LET framesToWrite == Len(input) \div ChannelCount
        writeIndex == abHeader[0]
        offset == AbOffset(writeIndex)
    IN  IF AbRejects(availableWrite, framesToWrite)
        THEN [header |-> abHeader, buffer |-> abBuffer, ret |-> 0]
        ELSE [header |-> [abHeader EXCEPT
                             ![0] = AbPublished(writeIndex, framesToWrite)],
              buffer |-> [slot \in DOMAIN abBuffer |->
                             IF \E k \in 0..(Len(input) - 1) :
                                    AbSlot(offset, Len(input), k) = slot
                             THEN input[(CHOOSE k \in 0..(Len(input) - 1) :
                                             AbSlot(offset, Len(input), k) = slot) + 1]
                             ELSE abBuffer[slot]],
              ret |-> framesToWrite]

\* AudioRingBuffer.read(outputChannels, framesToRead) as one call, lines
\* 127-167, into zeroed output arrays
AbRead(framesToRead) ==
    LET readIndex == abHeader[1]
        offset == AbOffset(readIndex)
        samplesToRead == framesToRead * ChannelCount
        silence == [c \in {0, 1} |-> [i \in 0..(OutLength - 1) |-> 0]]
    IN  IF AbUnderrun(availableRead, framesToRead)
        THEN [header |-> abHeader, out |-> silence, ret |-> FALSE]
        ELSE [header |-> [abHeader EXCEPT
                             ![1] = ToInt32Add(readIndex, framesToRead)],
              out |-> [c \in {0, 1} |-> [i \in 0..(OutLength - 1) |->
                          IF i < framesToRead
                          THEN ArrGet(abBuffer,
                                      AbSlot(offset, samplesToRead,
                                             (i * ChannelCount) + c))
                          ELSE 0]],
              ret |-> TRUE]

\* LoopYields never yielding
LoopYields_Never(bufferedFrames, target) == FALSE

\* LoopYields yielding as soon as anything is buffered
LoopYields_Early(bufferedFrames, target) == bufferedFrames >= 1

\* if (bufferedFrames >= TARGET_AHEAD), line 220: enough is buffered
LoopYields(bufferedFrames, target) == bufferedFrames >= target

\* LoopBlocked never holding the render back
LoopBlocked_Never(space, block) == FALSE

\* LoopBlocked holding the render back whatever the space
LoopBlocked_Always(space, block) == TRUE

\* if (availableWrite < bufferSize), line 227: no room for a block
LoopBlocked(space, block) == space < block

\* the blocks rendered since the worker last returned to its task queue: a
\* run started by a timer is a task of its own, a run started by a
\* microtask goes on in the task that queued it (lines 257-261).  A history
\* count, kept by initWasm and by the runs followed in two steps.
ChainAt(w) == IF w.loop = "microtask" THEN w.chain ELSE 0

\* one run of renderLoop(), lines 204-262, the engine's _render returning
\* (ok) or throwing: the commands it drains, the block it writes, how it
\* schedules itself again
RenderLoopRun(w, ok) ==
    LET drained == IF w.commandRingBuffer
                   THEN RbDrain(rbHeader[1], rbHeader[0])
                   ELSE [records |-> <<>>, readIndex |-> rbHeader[1]]
        calls == NoteCalls(drained.records)
        idle == [loop |-> "timeout", threw |-> FALSE, calls |-> calls,
                 yielded |-> TRUE, records |-> drained.records,
                 readIndex |-> drained.readIndex, rendered |-> FALSE,
                 write |-> [header |-> abHeader, buffer |-> abBuffer, ret |-> 0]]
        write == AbWrite(Interleaved(abFrames, w.bufferSize))
    IN  IF ~w.isReady \/ ~w.audioRingBuffer
        THEN [idle EXCEPT !.calls = <<>>, !.records = <<>>, !.yielded = FALSE,
                          !.readIndex = rbHeader[1]]
        ELSE IF LoopYields(availableRead, w.targetBufferSize) THEN idle
        ELSE IF LoopBlocked(availableWrite, w.bufferSize) THEN idle
        ELSE IF ~ok
        THEN [idle EXCEPT !.loop = "none", !.threw = TRUE, !.yielded = FALSE]
        ELSE [loop |-> IF NumSub(write.header[0], write.header[1])
                            < w.targetBufferSize
                       THEN "microtask" ELSE "timeout",
              threw |-> FALSE, yielded |-> FALSE,
              calls |-> Append(calls, <<"render", w.bufferSize>>),
              records |-> drained.records,
              readIndex |-> drained.readIndex, rendered |-> TRUE,
              write |-> write]

\* what a run of renderLoop leaves in the two buffers
RenderLoopEffect(r) ==
    /\ rbHeader' = IF r.readIndex = rbHeader[1] THEN rbHeader
                   ELSE [rbHeader EXCEPT ![1] = r.readIndex]
    /\ abHeader' = r.write.header
    /\ abBuffer' = r.write.buffer
    /\ abCalls' = IF r.rendered THEN abCalls + 1 ELSE abCalls
    /\ abFrames' = IF r.rendered THEN abFrames + wk.bufferSize ELSE abFrames
    /\ abAccepted' = IF r.rendered /\ r.write.ret > 0
                     THEN abAccepted \o
                          FramesOf(Interleaved(abFrames, wk.bufferSize))
                     ELSE abAccepted
    /\ rbDelivered' = rbDelivered \o r.records
    /\ UNCHANGED <<rbBuffer, wr, rd, rbCalls, rbAccepted, rbQuiet,
                   aw, ar, out, abDelivered>>

\* the config handed to initWasm, lines 139-144: {sampleRate, bufferSize,
\* volume: initialVolume, presetData: data.presetData}; sampleRate is the
\* module variable of line 35, which no statement assigns
WorkerConfig(w, data) ==
    [sampleRate |-> w.sampleRate,
     bufferSize |-> JsOr(data.bufferSize, BlockFrames),
     volume |-> data.volume, presetData |-> data.presetData]

\* the engine calls of initWasm, lines 60-86: _init or _init_with_preset,
\* then _render(config.volume || 1.0)
EngineInitCalls(config) ==
    << IF config.presetData # "none"
       THEN <<"init_with_preset", config.sampleRate, config.bufferSize,
              config.presetData>>
       ELSE <<"init", config.sampleRate, config.bufferSize>>,
       <<"volume", JsOr(config.volume, InitVolume)>> >>

\* self.onmessage -> handleCommand, lines 110-145, case 'init': the block
\* size, the target, the two buffers; initWasm starts and waits for the
\* engine's module.  A pending microtask of the render loop runs first.  The
\* bring-up posts no other message type to the worker.
WorkerOnMessage ==
    /\ wk.pc # "dead"
    /\ wk.loop # "microtask"
    /\ toWorker # <<>>
    /\ Head(toWorker).type = "init"
    /\ LET data == Head(toWorker)
       IN  /\ wk' = [wk EXCEPT !.pc = "loading",
                               !.bufferSize = JsOr(data.bufferSize, BlockFrames),
                               !.targetBufferSize =
                                   JsOr(data.targetBufferFrames, TargetAhead),
                               !.initialVolume = data.volume,
                               !.audioRingBuffer = data.audioSab,
                               !.commandRingBuffer = data.commandSab,
                               !.config = WorkerConfig(wk, data)]
    /\ toWorker' = Tail(toWorker)
    /\ UNCHANGED <<appVars, rbVars, abVars, sdk, wl, toWorklet, fromWorker, fromWorklet,
                   engineLog, posted, received>>

\* handleCommand, lines 115-117 and 155-157, case 'set-volume': dropped while
\* there is neither an engine nor readiness, else _render(data.volume)
WorkerOnSetVolume ==
    /\ wk.pc # "dead"
    /\ wk.loop # "microtask"
    /\ toWorker # <<>>
    /\ Head(toWorker).type = "set-volume"
    /\ engineLog' = IF ~wk.isReady /\ ~wk.moduleInstance THEN engineLog
                    ELSE Append(engineLog, <<"volume", Head(toWorker).volume>>)
    /\ toWorker' = Tail(toWorker)
    /\ UNCHANGED <<appVars, rbVars, abVars, sdk, wk, wl, toWorklet, fromWorker,
                   fromWorklet, posted, received>>

\* what initWasm posts once the engine is initialised: ready before the
\* render loop starts, and error from the catch when its first run throws
WorkerReplies(threw) == IF threw THEN <<"ready", "error">> ELSE <<"ready">>

\* the messages of a worker reply, in the order posted
Replies(types) == [i \in 1..Len(types) |-> [type |-> types[i]]]
Postings(types) == [i \in 1..Len(types) |-> <<"worker", types[i]>>]

\* initWasm after its awaits, lines 56-107.  The import or the factory may
\* reject and the engine's _init may throw: the catch posts error.  Else
\* isReady = true, ready is posted and renderLoop() runs once inside the try.
WorkerInitWasm ==
    /\ wk.pc = "loading"
    /\ \E outcome \in {"import", "engine", "ok"}, renders \in BOOLEAN :
        LET started == [wk EXCEPT !.moduleInstance = TRUE, !.isReady = TRUE]
            r == RenderLoopRun(started, renders)
        IN  IF outcome = "ok"
            THEN /\ wk' = [started EXCEPT !.pc = IF r.threw THEN "failed"
                                                 ELSE "started",
                                          !.loop = r.loop,
                                          !.chain = IF r.rendered THEN 1
                                                    ELSE 0]
                 /\ engineLog' = engineLog \o EngineInitCalls(wk.config)
                                           \o r.calls
                 /\ fromWorker' = fromWorker \o Replies(WorkerReplies(r.threw))
                 /\ posted' = posted \o Postings(WorkerReplies(r.threw))
                 /\ RenderLoopEffect(r)
            ELSE /\ renders
                 /\ wk' = [wk EXCEPT !.pc = "failed",
                                     !.moduleInstance = (outcome = "engine")]
                 /\ engineLog' = engineLog
                 /\ fromWorker' = Post(fromWorker, "error")
                 /\ posted' = Append(posted, <<"worker", "error">>)
                 /\ UNCHANGED <<rbVars, abVars>>
    /\ UNCHANGED <<appVars, sdk, wl, toWorker, toWorklet, fromWorklet, received>>

\* renderLoop run from its timer or its microtask; a throw of the engine is
\* caught by nobody and the loop is not scheduled again
RenderLoopStep(paced) ==
    /\ wk.loop \in {"timeout", "microtask"}
    /\ \E ok \in BOOLEAN :
        LET r == RenderLoopRun(wk, ok)
        IN  /\ r.rendered \/ r.threw => abCalls < MaxAudioWrites
            /\ wk' = [wk EXCEPT !.loop = r.loop,
                                !.pc = IF r.threw THEN "stopped" ELSE wk.pc]
            /\ engineLog' = engineLog \o r.calls
            /\ RenderLoopEffect(r)
            /\ clock' = IF paced /\ r.yielded THEN "quantum" ELSE clock
    /\ UNCHANGED <<storeVars, sdk, wl, toWorker, toWorklet, fromWorker,
                   fromWorklet, posted, received>>

WorkerRenderLoop == RenderLoopStep(FALSE)

\* renderLoop up to its two tests, lines 204-230, as a step of its own: the
\* commands are drained, and either the loop yields or a block is about to
\* be rendered and written.  Inside the run (pc "rendering") the worker
\* handles no message, as with a microtask pending.
RenderCheck ==
    /\ wk.loop \in {"timeout", "microtask"}
    /\ wk.pc # "rendering"
    /\ \E ok \in BOOLEAN :
        LET r == RenderLoopRun(wk, ok)
        IN  /\ r.rendered \/ r.threw => abCalls < MaxRenders
            /\ wk' = [wk EXCEPT !.loop = IF r.rendered THEN "microtask"
                                         ELSE r.loop,
                                !.pc = IF r.threw THEN "stopped"
                                       ELSE IF r.rendered THEN "rendering"
                                       ELSE wk.pc,
                                !.chain = ChainAt(wk)]
            /\ engineLog' = engineLog \o NoteCalls(r.records)
            /\ rbHeader' = IF r.readIndex = rbHeader[1] THEN rbHeader
                           ELSE [rbHeader EXCEPT ![1] = r.readIndex]
            /\ rbDelivered' = rbDelivered \o r.records
    /\ UNCHANGED <<appVars, abVars, rbBuffer, wr, rd, rbCalls, rbAccepted,
                   rbQuiet, sdk, wl, toWorker, toWorklet, fromWorker,
                   fromWorklet, posted, received>>

\* the rest of that run, lines 232-261: the block is rendered, written with
\* the return value of write ignored, and the loop schedules itself; the
\* audio thread may have read since the tests
RenderWrite ==
    /\ wk.pc = "rendering"
    /\ LET input == Interleaved(abFrames, wk.bufferSize)
           write == AbWrite(input)
       IN  /\ abHeader' = write.header
           /\ abBuffer' = write.buffer
           /\ abCalls' = abCalls + 1
           /\ abFrames' = abFrames + wk.bufferSize
           /\ abAccepted' = IF write.ret > 0 THEN abAccepted \o FramesOf(input)
                            ELSE abAccepted
           /\ wk' = [wk EXCEPT !.pc = "started",
                               !.chain = wk.chain + 1,
                               !.loop =
                        IF NumSub(write.header[0], write.header[1])
                              < wk.targetBufferSize
                        THEN "microtask" ELSE "timeout"]
           /\ engineLog' = Append(engineLog, <<"render", wk.bufferSize>>)
    /\ UNCHANGED <<appVars, rbVars, aw, ar, out, abDelivered, sdk, wl, toWorker,
                   toWorklet, fromWorker, fromWorklet, posted, received>>

\* ---------------------------------------------------------------------------
\* renderLoop statement by statement: the command queue is written by the
\* main thread and the audio buffer read by the audio thread while a run is
\* under way
\* ---------------------------------------------------------------------------

\* where a run of renderLoop stands after processCommands: before the
\* look-ahead test (line 220), the free-space test (227), the engine's
\* _render (233), the interleaving and the write (236-252), the last test
\* (254)
LoopStages == {"lookAhead", "space", "render", "write", "recheck"}

\* the worker's task queue is not served inside a run: the stage keeps the
\* message handlers out as a pending microtask does
InRun(stage) == [wk EXCEPT !.pc = stage, !.loop = "microtask"]

\* the run is over and the loop scheduled again, by setTimeout or by
\* queueMicrotask
Rescheduled(how) == [wk EXCEPT !.pc = "started", !.loop = how]

\* lines 204-210: the readiness test, then processCommands()
LoopEnter ==
    /\ wk.pc = "started"
    /\ wk.loop \in {"timeout", "microtask"}
    /\ IF ~wk.isReady \/ ~wk.audioRingBuffer
       THEN /\ wk' = Rescheduled("timeout")
            /\ UNCHANGED <<rbHeader, rbDelivered, engineLog>>
       ELSE LET drained == IF wk.commandRingBuffer
                           THEN RbDrain(rbHeader[1], rbHeader[0])
                           ELSE [records |-> <<>>, readIndex |-> rbHeader[1]]
            IN  /\ wk' = InRun("lookAhead")
                /\ rbHeader' = IF drained.readIndex = rbHeader[1] THEN rbHeader
                               ELSE [rbHeader EXCEPT ![1] = drained.readIndex]
                /\ rbDelivered' = rbDelivered \o drained.records
                /\ engineLog' = engineLog \o NoteCalls(drained.records)
    /\ UNCHANGED <<appVars, abVars, rbBuffer, wr, rd, rbCalls, rbAccepted,
                   rbQuiet, sdk, wl, toWorker, toWorklet, fromWorker,
                   fromWorklet, posted, received>>

\* lines 215-223: bufferedFrames = availableRead(); enough buffered, yield
LoopLookAhead ==
    /\ wk.pc = "lookAhead"
    /\ wk' = IF LoopYields(availableRead, wk.targetBufferSize)
             THEN Rescheduled("timeout") ELSE InRun("space")
    /\ UNCHANGED <<appVars, rbVars, abVars, sdk, wl, toWorker, toWorklet,
                   fromWorker, fromWorklet, engineLog, posted, received>>

\* lines 226-230: no room for a block, yield
LoopSpace ==
    /\ wk.pc = "space"
    /\ IF LoopBlocked(availableWrite, wk.bufferSize)
       THEN wk' = Rescheduled("timeout")
       ELSE abCalls < MaxLoopBlocks /\ wk' = InRun("render")
    /\ UNCHANGED <<appVars, rbVars, abVars, sdk, wl, toWorker, toWorklet,
                   fromWorker, fromWorklet, engineLog, posted, received>>

\* line 233: moduleInstance._render(outLPtr, outRPtr, bufferSize); a throw
\* is caught by nobody and the loop is not scheduled again
LoopRender ==
    /\ wk.pc = "render"
    /\ \E ok \in BOOLEAN :
        IF ok
        THEN /\ wk' = InRun("write")
             /\ engineLog' = Append(engineLog, <<"render", wk.bufferSize>>)
        ELSE /\ wk' = [wk EXCEPT !.pc = "stopped", !.loop = "none"]
             /\ engineLog' = engineLog
    /\ UNCHANGED <<appVars, rbVars, abVars, sdk, wl, toWorker, toWorklet,
                   fromWorker, fromWorklet, posted, received>>

\* lines 236-252: the block interleaved into tempBufferInterleaved and
\* written, the return value of write ignored
LoopWrite ==
    /\ wk.pc = "write"
    /\ LET input == Interleaved(abFrames, wk.bufferSize)
           write == AbWrite(input)
       IN  /\ abHeader' = write.header
           /\ abBuffer' = write.buffer
           /\ abCalls' = abCalls + 1
           /\ abFrames' = abFrames + wk.bufferSize
           /\ abAccepted' = IF write.ret > 0 THEN abAccepted \o FramesOf(input)
                            ELSE abAccepted
    /\ wk' = InRun("recheck")
    /\ UNCHANGED <<appVars, rbVars, aw, ar, out, abDelivered, sdk, wl, toWorker,
                   toWorklet, fromWorker, fromWorklet, engineLog, posted,
                   received>>

\* lines 254-261: still below the target, queueMicrotask; else setTimeout 0
LoopRecheck ==
    /\ wk.pc = "recheck"
    /\ wk' = IF availableRead < wk.targetBufferSize
             THEN Rescheduled("microtask") ELSE Rescheduled("timeout")
    /\ UNCHANGED <<appVars, rbVars, abVars, sdk, wl, toWorker, toWorklet,
                   fromWorker, fromWorklet, engineLog, posted, received>>

\* renderLoop under the paced scheduling: a run that yields with nothing to
\* do lets the next quantum be taken
PacedRenderLoop == RenderLoopStep(TRUE)

\* VitalProcessor.handleMessage, lines 27-33
WorkletOnMessage ==
    /\ toWorklet # <<>>
    /\ IF Head(toWorklet).type = "init-audio-sab"
       THEN /\ wl' = [wl EXCEPT !.audioRingBuffer = TRUE]
            /\ fromWorklet' = Post(fromWorklet, "ready")
            /\ posted' = Append(posted, <<"worklet", "ready">>)
       ELSE UNCHANGED <<wl, fromWorklet, posted>>
    /\ toWorklet' = Tail(toWorklet)
    /\ UNCHANGED <<appVars, rbVars, abVars, sdk, wk, toWorker, fromWorker, engineLog,
                   received>>

\* return true, lines 41 and 53: the node is kept alive
ProcessReturn == TRUE

\* VitalProcessor.process, lines 35-54: one quantum read from the buffer, or
\* the outputs left silent.  The audio thread may call process as soon as the
\* node exists, connected or not, while its context is not closed.
ProcessStep(paced) ==
    /\ sdk.workletNode # "none"
    /\ sdk.audioContext = "running"
    /\ wl.keepAlive
    /\ paced => clock = "quantum"
    /\ clock' = IF paced THEN "loop" ELSE clock
    /\ wl' = [wl EXCEPT !.keepAlive = ProcessReturn]
    /\ LET read == AbRead(QuantumFrames)
       IN  IF wl.audioRingBuffer
           THEN /\ abHeader' = read.header
                /\ out' = read.out
                /\ abDelivered' = IF read.ret
                                  THEN abDelivered \o
                                       [f \in 1..QuantumFrames |->
                                           <<read.out[0][f - 1], read.out[1][f - 1]>>]
                                  ELSE abDelivered
           ELSE /\ out' = [c \in {0, 1} |-> [i \in 0..(OutLength - 1) |-> 0]]
                /\ UNCHANGED <<abHeader, abDelivered>>
    /\ UNCHANGED <<storeVars, rbVars, abBuffer, aw, ar, abCalls, abFrames,
                   abAccepted, sdk, wk, toWorker, toWorklet, fromWorker,
                   fromWorklet, engineLog, posted, received>>

WorkletProcess == ProcessStep(FALSE)

\* process under the paced scheduling: the audio thread takes a quantum
\* only after the render loop has completed its catch-up, and one at a time
PacedProcess == ProcessStep(TRUE)

\* ---------------------------------------------------------------------------
\* useAudioStore.initialize() and the VitalSDK of the ScriptProcessor mode.
\* One call of initialize() from outside is followed.
\* ---------------------------------------------------------------------------

\* localStorage master_volume || 0.8, in tenths
StoreVolume == 8

\* VitalSDK.isWorklet: this.initialized && this.useWorklet
IsWorklet(s) == s.initialized

\* initialize(), lines 40-69: nothing while initialised or loading; else the
\* SDK is made for the mode the settings ask for and its init() is called
StoreInitialize ==
    /\ ~store.isInitialized
    /\ ~store.isLoading
    /\ ~store.called
    /\ store' = [store EXCEPT !.called = TRUE, !.isLoading = TRUE,
                              !.initializationError = "none",
                              !.attempts = 1, !.runs = 1,
                              !.pc = IF store.forceScriptProcessor
                                     THEN "legacy" ELSE "worklet"]
    /\ UNCHANGED <<rbVars, abVars, hsVars, legacy, mainEngineLog, noteLog, presetLog, clock, api>>

\* init() without the worklet, lines 87-101 and 117-118: the AudioContext,
\* initialized = true, then the await of _loadWasm
LegacyInit ==
    /\ store.pc \in {"legacy", "fallback"}
    /\ legacy.pc = "new"
    /\ ~legacy.initialized
    /\ \E ok \in BOOLEAN :
        legacy' = IF ok
                  THEN [legacy EXCEPT !.pc = "loadWasm", !.initialized = TRUE,
                                      !.destroyed = FALSE,
                                      !.audioContext = "running"]
                  ELSE [legacy EXCEPT !.pc = "failed", !.error = "context",
                                      !.onError = legacy.onError + 1]
    /\ UNCHANGED <<rbVars, abVars, hsVars, store, mainEngineLog, noteLog, presetLog, clock, api>>

\* _loadWasm settles and _initScriptProcessor runs, lines 118-131 and
\* 221-245: the import may reject, the engine's _init or
\* createScriptProcessor(bufferSize) may throw; else the engine is
\* initialised, the script node connected and onReady called.  After a
\* destroy() during the await, this._audioContext.sampleRate of line 119
\* throws on null.
LegacyLoadWasm ==
    /\ legacy.pc = "loadWasm"
    /\ \E outcome \in {"wasm", "engine", "ok"} :
        IF outcome = "ok" /\ legacy.audioContext # "running"
        THEN /\ legacy' = [legacy EXCEPT !.pc = "failed", !.initialized = FALSE,
                                         !.moduleInstance = TRUE,
                                         !.onError = legacy.onError + 1,
                                         !.error = "context"]
             /\ UNCHANGED mainEngineLog
        ELSE IF outcome = "ok"
        THEN /\ legacy' = [legacy EXCEPT !.pc = "done", !.moduleInstance = TRUE,
                                         !.scriptNode = TRUE,
                                         !.onReady = legacy.onReady + 1]
             /\ mainEngineLog' = Append(mainEngineLog,
                                        <<"init", SampleRate, legacy.bufferSize>>)
        ELSE /\ legacy' = [legacy EXCEPT !.pc = "failed", !.initialized = FALSE,
                                         !.moduleInstance = (outcome = "engine"),
                                         !.onError = legacy.onError + 1,
                                         !.error = outcome]
             /\ UNCHANGED mainEngineLog
    /\ UNCHANGED <<rbVars, abVars, hsVars, store, noteLog, presetLog, clock, api>>

\* lines 92-125 and 139-141 once an init() has resolved: the backend is named
\* unless the fallback named it, the instance is kept, isInitialized = true,
\* the stored volume is sent, isLoading = false
StoreSucceeds(vital, type) ==
    [store EXCEPT !.pc = "idle", !.vitalInstance = vital,
                  !.processorType = IF store.processorType = "Unknown"
                                    THEN type ELSE store.processorType,
                  !.isInitialized = TRUE, !.isLoading = FALSE]

\* lines 127-141: the error of the init() that was awaited last is kept,
\* isLoading = false
StoreFails(cause) ==
    [store EXCEPT !.pc = "idle", !.initializationError = cause,
                  !.isLoading = FALSE]

\* StoreFallsBack not trying the ScriptProcessor mode after a failed worklet
StoreFallsBack_Never(shouldUseWorklet) == FALSE

\* if (shouldUseWorklet), line 72: a failed init of the worklet mode is
\* followed by one of the ScriptProcessor mode
StoreFallsBack(shouldUseWorklet) == shouldUseWorklet

\* initialize() after await vital.init() of the worklet mode, lines 69-125:
\* resolved, the store is initialised and setVolume posts the stored volume
\* to the worker; rejected, a second VitalSDK is made with useWorklet: false
\* and its init() called
StoreAfterWorklet ==
    /\ store.pc = "worklet"
    /\ sdk.pc \in {"done", "failed"}
    /\ IF sdk.pc = "done"
       THEN /\ store' = StoreSucceeds("sdk", IF IsWorklet(sdk)
                                             THEN "Audio Worklet"
                                             ELSE "ScriptProcessorNode")
            /\ IF sdk.initialized /\ sdk.worker
               THEN /\ toWorker' = Append(toWorker, [type |-> "set-volume",
                                                     volume |-> StoreVolume])
                    /\ posted' = Append(posted, <<"sdk", "set-volume">>)
               ELSE UNCHANGED <<toWorker, posted>>
       ELSE /\ store' = IF StoreFallsBack(~store.forceScriptProcessor)
                        THEN [store EXCEPT !.pc = "fallback",
                                           !.attempts = store.attempts + 1]
                        ELSE StoreFails(sdk.error)
            /\ UNCHANGED <<toWorker, posted>>
    /\ UNCHANGED <<rbVars, abVars, sdk, wk, wl, toWorklet, fromWorker,
                   fromWorklet, engineLog, received, legacy, mainEngineLog,
                   noteLog, presetLog, clock, api>>

\* initialize() after await vital.init() of the ScriptProcessor mode, lines
\* 82-141: resolved, the backend is named (as the fallback when it is one),
\* setVolume does nothing in this mode; rejected, the error is kept
StoreAfterLegacy ==
    /\ store.pc \in {"legacy", "fallback"}
    /\ legacy.pc \in {"done", "failed"}
    /\ store' = IF legacy.pc = "failed" THEN StoreFails(legacy.error)
                ELSE IF store.pc = "fallback"
                THEN [StoreSucceeds("legacy", "ScriptProcessorNode") EXCEPT
                         !.processorType = "ScriptProcessorNode (Fallback)"]
                ELSE StoreSucceeds("legacy", "ScriptProcessorNode")
    /\ UNCHANGED <<rbVars, abVars, hsVars, legacy, mainEngineLog, noteLog, presetLog, clock, api>>

\* InitializeRuns whatever the state of the store
InitializeRuns_Always(s) == TRUE

\* if (isInitialized.value || isLoading.value) return, part_003 line 41
InitializeRuns(s) == ~(s.isInitialized \/ s.isLoading)

\* the worker's script fails to load or to evaluate: an error event on the
\* Worker object, for which the SDK sets no handler; the worker handles
\* nothing
WorkerFails ==
    /\ sdk.worker
    /\ wk.pc = "boot"
    /\ wk' = [wk EXCEPT !.pc = "dead"]
    /\ UNCHANGED <<appVars, rbVars, abVars, sdk, wl, toWorker, toWorklet,
                   fromWorker, fromWorklet, engineLog, posted, received>>

\* ---------------------------------------------------------------------------
\* noteOn and noteOff: the store's functions and the SDK's methods
\* ---------------------------------------------------------------------------

\* the notes and the velocities (fractions <<numerator, denominator>>) the
\* keys are played with: PianoKey calls noteOn(midiNote), and the velocity
\* is the default of the store's noteOn, 0.8
Notes == {60}
Velocities == {<<8, 10>>}

\* Math.floor(velocity * 127) stored in a Uint8Array
VelocityByte(velocity) == ToUint8((velocity[1] * 127) \div velocity[2])

\* RingBuffer.write(data) as one call, lines 39-65: the header and the data
\* it leaves and what it returns
RbWrite(data) ==
    LET required == Len(data) + 1
        writeIndex == rbHeader[0]
        available == RbAvailable(writeIndex, rbHeader[1])
    IN  IF RbRejects(available, required)
        THEN [header |-> rbHeader, buffer |-> rbBuffer, ret |-> FALSE]
        ELSE [header |-> [rbHeader EXCEPT ![0] = RbPublished(writeIndex, required)],
              buffer |-> [slot \in DOMAIN rbBuffer |->
                             IF slot = JsRem(writeIndex, RbSize)
                                   /\ ~\E i \in 0..(Len(data) - 1) :
                                          RbDataSlot(writeIndex, i) = slot
                             THEN ToUint8(Len(data))
                             ELSE IF \E i \in 0..(Len(data) - 1) :
                                        RbDataSlot(writeIndex, i) = slot
                             THEN ToUint8(data[(CHOOSE i \in 0..(Len(data) - 1) :
                                                RbDataSlot(writeIndex, i) = slot) + 1])
                             ELSE rbBuffer[slot]],
              ret |-> TRUE]

\* the payload lengths written to the large buffer: short ones, and the
\* shortest that does not fit the one-byte prefix
LargePayloadLens == {1, 2, PrefixRange}

\* write(data) as one call on the large buffer, by its single producer
LargeWrite ==
    /\ rbCalls < MaxLargeWrites
    /\ \E len \in LargePayloadLens :
        LET data == Payload(rbCalls + 1, len)
            write == RbWrite(data)
        IN  /\ rbHeader' = write.header
            /\ rbBuffer' = write.buffer
            /\ rbAccepted' = IF write.ret THEN Append(rbAccepted, data)
                             ELSE rbAccepted
            /\ wr' = [WrIdle EXCEPT !.data = data,
                                   !.ret = IF write.ret THEN "true" ELSE "false"]
    /\ rbCalls' = rbCalls + 1
    /\ UNCHANGED <<notRb, rd, rbDelivered, rbQuiet>>

\* read(callback) as one call on the large buffer, by its single consumer
LargeDrain ==
    /\ rbHeader[0] # rbHeader[1]
    /\ LET drained == RbDrain(rbHeader[1], rbHeader[0])
       IN  /\ rbHeader' = [rbHeader EXCEPT ![1] = drained.readIndex]
           /\ rbDelivered' = rbDelivered \o drained.records
    /\ UNCHANGED <<notRb, rbBuffer, wr, rd, rbCalls, rbAccepted, rbQuiet>>

\* the large buffer with its producer and its consumer
LargeNext ==
    \/ LargeWrite
    \/ LargeDrain

\* the record of a call: [CMD_NOTE_ON, midiNote, velocityByte] or
\* [CMD_NOTE_OFF, midiNote]
NoteRecord(op, note, velocity) ==
    IF op = "noteOn" THEN <<CMD_NOTE_ON, note, VelocityByte(velocity)>>
    ELSE <<CMD_NOTE_OFF, note>>

\* the SDK the store holds passes the guards of noteOn / noteOff for the
\* ring buffer: initialized, useWorklet && worker && ringBuffer
NoteToQueue ==
    store.vitalInstance = "sdk" /\ sdk.initialized /\ sdk.worker /\ sdk.buffers

\* ... or for the engine of the main thread: initialized, not the worklet
\* mode, moduleInstance
NoteToEngine ==
    store.vitalInstance = "legacy" /\ legacy.initialized /\ legacy.moduleInstance

\* store.noteOn / noteOff -> VitalSDK.noteOn / noteOff, part_003 144-161 and
\* index.ts 273-297: nothing without an instance; in the worklet mode the
\* record is written to the ring buffer (noteOn warns when it is refused,
\* noteOff looks at nothing); else the engine is called at once
NoteCall(op, note, velocity) ==
    /\ store.vitalInstance # "none"
    /\ ~StoreResumes
    /\ Len(noteLog) < MaxNotes
    /\ LET write == RbWrite(NoteRecord(op, note, velocity))
       IN  /\ IF NoteToQueue
              THEN /\ rbHeader' = write.header
                   /\ rbBuffer' = write.buffer
                   /\ rbAccepted' = IF write.ret
                                    THEN Append(rbAccepted,
                                                NoteRecord(op, note, velocity))
                                    ELSE rbAccepted
              ELSE UNCHANGED <<rbHeader, rbBuffer, rbAccepted>>
           /\ mainEngineLog' =
                 IF NoteToEngine
                 THEN Append(mainEngineLog,
                             IF op = "noteOn" THEN <<"note_on", note, velocity>>
                             ELSE <<"note_off", note>>)
                 ELSE mainEngineLog
           /\ noteLog' = Append(noteLog,
                                [op |-> op, note |-> note, velocity |-> velocity,
                                 backend |-> store.vitalInstance,
                                 queued |-> NoteToQueue /\ write.ret,
                                 warned |-> NoteToQueue /\ ~write.ret
                                            /\ op = "noteOn"])
    /\ UNCHANGED <<abVars, hsVars, store, legacy, presetLog, clock, api, wr, rd,
                   rbCalls, rbDelivered, rbQuiet>>

StoreNoteOn == \E note \in Notes, velocity \in Velocities :
                  NoteCall("noteOn", note, velocity)

StoreNoteOff == \E note \in Notes : NoteCall("noteOff", note, <<0, 1>>)

\* ---------------------------------------------------------------------------
\* loadPreset: the store's function, the SDK's method, the worker's handler
\* ---------------------------------------------------------------------------

\* the preset strings passed: valid JSON the engine takes; text JSON.parse
\* throws on; valid JSON for which _load_preset returns non-zero; valid JSON
\* on which _load_preset throws
Presets == {"valid", "malformed", "rejected", "throws"}

\* JSON.parse(jsonString) throws, line 316
ParseThrows(preset) == preset = "malformed"

\* _load_preset(strPtr, len): what the engine does with the preset
EngineLoadPreset(preset) ==
    IF preset = "valid" THEN "ok"
    ELSE IF preset = "rejected" THEN "rc" ELSE "throw"

\* store.loadPreset -> VitalSDK.loadPreset with a string, part_003 163-166
\* and index.ts 302-342: nothing without an instance; a rejection when not
\* initialised or when JSON.parse throws; in the worklet mode the bytes are
\* posted to the worker and the promise resolves; else _load_preset is
\* called and the promise rejects when it throws or returns non-zero
StoreLoadPreset ==
    /\ store.vitalInstance # "none"
    /\ ~StoreResumes
    /\ Len(presetLog) < MaxPresets
    /\ \E preset \in Presets :
        LET vital == IF store.vitalInstance = "sdk" THEN sdk ELSE legacy
            parsed == vital.initialized /\ ~ParseThrows(preset)
            posts == parsed /\ store.vitalInstance = "sdk" /\ sdk.worker
            calls == parsed /\ store.vitalInstance = "legacy"
                            /\ legacy.moduleInstance
        IN  /\ toWorker' = IF posts
                           THEN Append(toWorker, [type |-> "load-preset",
                                                  presetData |-> preset])
                           ELSE toWorker
            /\ posted' = IF posts THEN Append(posted, <<"sdk", "load-preset">>)
                         ELSE posted
            /\ mainEngineLog' = IF calls
                                THEN Append(mainEngineLog,
                                            <<"load_preset", preset>>)
                                ELSE mainEngineLog
            /\ presetLog' = Append(presetLog,
                  [preset |-> preset, backend |-> store.vitalInstance,
                   result |-> IF ~parsed THEN "rejected"
                              ELSE IF calls /\ EngineLoadPreset(preset) # "ok"
                              THEN "rejected" ELSE "resolved"])
    /\ UNCHANGED <<rbVars, abVars, store, legacy, noteLog, clock, api, sdk, wk,
                   wl,
                   toWorklet, fromWorker, fromWorklet, engineLog, received>>

\* handleCommand, lines 115-117 and 161-163, case 'load-preset', and
\* loadPreset, lines 167-189: dropped while there is neither an engine nor
\* readiness, and without an engine; else _load_preset is called, its result
\* is not looked at and preset-loaded is posted, unless it throws, which the
\* catch logs
WorkerOnLoadPreset ==
    /\ wk.pc # "dead"
    /\ wk.loop # "microtask"
    /\ toWorker # <<>>
    /\ Head(toWorker).type = "load-preset"
    /\ LET preset == Head(toWorker).presetData
           calls == wk.moduleInstance
           replies == calls /\ EngineLoadPreset(preset) # "throw"
       IN  /\ engineLog' = IF calls
                           THEN Append(engineLog, <<"load_preset", preset>>)
                           ELSE engineLog
           /\ fromWorker' = IF replies THEN Post(fromWorker, "preset-loaded")
                            ELSE fromWorker
           /\ posted' = IF replies
                        THEN Append(posted, <<"worker", "preset-loaded">>)
                        ELSE posted
    /\ toWorker' = Tail(toWorker)
    /\ UNCHANGED <<appVars, rbVars, abVars, sdk, wk, wl, toWorklet, fromWorklet,
                   received>>

\* ---------------------------------------------------------------------------
\* The methods of VitalSDK called by the owner of the object: noteOn,
\* noteOff, setVolume, loadPreset and destroy, on the SDK of the worklet mode
\* ("sdk") or on the SDK of the ScriptProcessor mode ("legacy"), at any time
\* the main thread is between tasks.
\* ---------------------------------------------------------------------------

Targets == {"sdk", "legacy"}

\* no call made yet
NoCall == [target |-> "none", op |-> "none"]

\* the volume passed to setVolume, in tenths
ApiVolumes == {5}

\* the preset strings passed to loadPreset by the owner
ApiPresets == {"valid", "malformed"}

\* the VitalSDK object called
Vital(target) == IF target = "sdk" THEN sdk ELSE legacy

\* the object has been made: the SDK of the worklet mode unless the
\* settings force the ScriptProcessor mode, the SDK of the ScriptProcessor
\* mode when they do or when the store has fallen back to it
Made(target) ==
    IF target = "sdk" THEN ~store.forceScriptProcessor
    ELSE store.forceScriptProcessor \/ store.pc = "fallback"
         \/ store.vitalInstance = "legacy" \/ legacy.pc # "new"

\* the objects the owner can call
Owned == {target \in Targets : Made(target)}

\* the main thread is between tasks: no executor of init() is running and
\* no continuation of initialize() waits
MainIdle ==
    /\ sdk.pc \in {"new", "addModule", "awaiting", "done", "failed"}
    /\ ~StoreResumes

\* if (!this.initialized) return, lines 274, 290, 360; loadPreset throws
\* instead, line 303
ApiGuard_Never(s) == TRUE

ApiGuard(s) == s.initialized

\* if (this.useWorklet && this.worker && this.ringBuffer), lines 276 and 292
ApiToQueue(target) == target = "sdk" /\ sdk.worker /\ sdk.buffers

\* else if (this.moduleInstance), lines 281 and 294: the worklet SDK never
\* loads an engine of its own
ApiToEngine(target) ==
    ~ApiToQueue(target) /\ target = "legacy" /\ legacy.moduleInstance

\* ApiPosts in either mode
ApiPosts_Always(target) == TRUE

\* if (this.useWorklet && this.worker), line 362, and if (this.useWorklet)
\* if (this.worker), lines 323-328
ApiPosts(target) == target = "sdk" /\ sdk.worker

\* the record of a call: the state of the object when called and what the
\* call did
ApiEntry(target, op, arg, wrote, post, engine, result) ==
    [target |-> target, op |-> op, arg |-> arg, pc |-> Vital(target).pc,
     initialized |-> Vital(target).initialized,
     destroyed |-> Vital(target).destroyed,
     ready |-> <<"worker", "ready">> \in received,
     wrote |-> wrote, posted |-> post, engine |-> engine, result |-> result]

\* one more call made
Called(entry) == [calls |-> api.calls + 1, last |-> entry]

\* VitalSDK.noteOn(midiNote, velocity) and noteOff(midiNote), lines 273-297
ApiNote(target, op, note, velocity) ==
    /\ MainIdle
    /\ api.calls < MaxApiCalls
    /\ LET write == RbWrite(NoteRecord(op, note, velocity))
           queue == ApiGuard(Vital(target)) /\ ApiToQueue(target)
           engine == ApiGuard(Vital(target)) /\ ApiToEngine(target)
       IN  /\ IF queue
              THEN /\ rbHeader' = write.header
                   /\ rbBuffer' = write.buffer
                   /\ rbAccepted' = IF write.ret
                                    THEN Append(rbAccepted,
                                                NoteRecord(op, note, velocity))
                                    ELSE rbAccepted
              ELSE UNCHANGED <<rbHeader, rbBuffer, rbAccepted>>
           /\ mainEngineLog' =
                 IF engine
                 THEN Append(mainEngineLog,
                             IF op = "noteOn" THEN <<"note_on", note, velocity>>
                             ELSE <<"note_off", note>>)
                 ELSE mainEngineLog
           /\ api' = Called(
                               ApiEntry(target, op, <<note, velocity>>,
                                        queue /\ write.ret, FALSE, engine,
                                        "returned"))
    /\ UNCHANGED <<abVars, hsVars, store, legacy, noteLog, presetLog, clock,
                   wr, rd, rbCalls, rbDelivered, rbQuiet>>

SdkNoteOn == \E target \in Owned, note \in Notes, velocity \in Velocities :
                ApiNote(target, "noteOn", note, velocity)

SdkNoteOff == \E target \in Owned, note \in Notes :
                 ApiNote(target, "noteOff", note, <<0, 1>>)

\* VitalSDK.setVolume(volume), lines 359-365: posted to the worker in the
\* worklet mode, nothing else
SdkSetVolume ==
    /\ MainIdle
    /\ api.calls < MaxApiCalls
    /\ \E target \in Owned, volume \in ApiVolumes :
        LET posts == ApiGuard(Vital(target)) /\ ApiPosts(target)
        IN  /\ toWorker' = IF posts
                           THEN Append(toWorker, [type |-> "set-volume",
                                                  volume |-> volume])
                           ELSE toWorker
            /\ posted' = IF posts THEN Append(posted, <<"sdk", "set-volume">>)
                         ELSE posted
            /\ api' = Called(
                                ApiEntry(target, "setVolume", volume, FALSE,
                                         posts, FALSE, "returned"))
    /\ UNCHANGED <<rbVars, abVars, store, legacy, mainEngineLog, noteLog,
                   presetLog, clock, sdk, wk, wl, toWorklet, fromWorker,
                   fromWorklet, engineLog, received>>

\* VitalSDK.loadPreset(preset) with a string, lines 302-342
SdkLoadPreset ==
    /\ MainIdle
    /\ api.calls < MaxApiCalls
    /\ \E target \in Owned, preset \in ApiPresets :
        LET parsed == ApiGuard(Vital(target)) /\ ~ParseThrows(preset)
            posts == parsed /\ ApiPosts(target)
            calls == parsed /\ target = "legacy" /\ legacy.moduleInstance
        IN  /\ toWorker' = IF posts
                           THEN Append(toWorker, [type |-> "load-preset",
                                                  presetData |-> preset])
                           ELSE toWorker
            /\ posted' = IF posts THEN Append(posted, <<"sdk", "load-preset">>)
                         ELSE posted
            /\ mainEngineLog' = IF calls
                                THEN Append(mainEngineLog,
                                            <<"load_preset", preset>>)
                                ELSE mainEngineLog
            /\ api' = Called(
                  ApiEntry(target, "loadPreset", preset, FALSE, posts, calls,
                           IF ~parsed THEN "rejected"
                           ELSE IF calls /\ EngineLoadPreset(preset) # "ok"
                           THEN "rejected" ELSE "resolved"))
    /\ UNCHANGED <<rbVars, abVars, store, legacy, noteLog, presetLog, clock,
                   sdk, wk, wl, toWorklet, fromWorker, fromWorklet, engineLog,
                   received>>

\* what destroy() leaves of the object, lines 367-388: the worker and the
\* script node dropped, the context closed, initialized = false; the worklet
\* node and the two buffers are not touched
Destroyed(s) ==
    [f \in DOMAIN s |->
        IF f = "initialized" THEN FALSE
        ELSE IF f = "destroyed" THEN TRUE
        ELSE IF f \in {"worker", "scriptNode"} THEN FALSE
        ELSE IF f = "audioContext"
        THEN (IF s.audioContext = "none" THEN "none" ELSE "closed")
        ELSE s[f]]

\* VitalSDK.destroy(), lines 367-388.  worker.terminate() stops the worker
\* at once and discards the messages queued either way; a closed context
\* renders no further quantum.
SdkDestroy ==
    /\ MainIdle
    /\ api.calls < MaxApiCalls
    /\ \E target \in Owned :
        /\ IF target = "sdk"
           THEN /\ sdk' = Destroyed(sdk)
                /\ IF sdk.worker
                   THEN /\ wk' = [wk EXCEPT !.pc = "dead", !.loop = "none"]
                        /\ toWorker' = <<>>
                        /\ fromWorker' = <<>>
                   ELSE UNCHANGED <<wk, toWorker, fromWorker>>
                /\ UNCHANGED legacy
           ELSE /\ legacy' = Destroyed(legacy)
                /\ UNCHANGED <<sdk, wk, toWorker, fromWorker>>
        /\ api' = Called(
                            ApiEntry(target, "destroy", 0, FALSE, FALSE, FALSE,
                                     "returned"))
    /\ UNCHANGED <<rbVars, abVars, store, mainEngineLog, noteLog, presetLog,
                   clock, wl, toWorklet, fromWorklet, engineLog, posted,
                   received>>

\* VitalSDK.init() called again on the worklet-mode object while it is
\* initialized, lines 86-90: a warning, and the call resolves at once.  (A
\* call on an object that is not initialized starts a bring-up anew; one
\* bring-up per object is followed.)
SdkInitAgain ==
    /\ MainIdle
    /\ api.calls < MaxApiCalls
    /\ "sdk" \in Owned
    /\ sdk.initialized
    /\ api' = Called(ApiEntry("sdk", "init", 0, FALSE, FALSE, FALSE,
                              "resolved"))
    /\ UNCHANGED <<rbVars, abVars, hsVars, store, legacy, mainEngineLog,
                   noteLog, presetLog, clock>>

\* the steps of the bring-up but the render loop's runs and the audio
\* thread's calls: the store, the SDK of either mode, the worker's and the
\* worklet's message handlers
Control ==
    \/ StoreInitialize
    \/ StoreAfterWorklet
    \/ StoreAfterLegacy
    \/ LegacyInit
    \/ LegacyLoadWasm
    \/ WorkerFails
    \/ SdkInit
    \/ SdkAddModule
    \/ SdkSendRegion
    \/ SdkSendInit
    \/ SdkOnWorkerMessage
    \/ SdkOnWorkletMessage
    \/ WorkerOnMessage
    \/ WorkerOnSetVolume
    \/ WorkerInitWasm
    \/ WorkletOnMessage

\* the bring-up with the render loop and the audio thread scheduled freely
BringUp ==
    \/ Control
    \/ WorkerRenderLoop
    \/ WorkletProcess

\* the pipeline under the paced scheduling: the audio thread takes one
\* quantum each time the render loop has caught up and yielded
NextPaced ==
    \/ Control
    \/ PacedRenderLoop
    \/ PacedProcess

\* the pipeline with the keys played
Next ==
    \/ BringUp
    \/ StoreNoteOn
    \/ StoreNoteOff

\* the bring-up, the owner calling the methods of either VitalSDK object
NextApi ==
    \/ Control
    \/ WorkerOnLoadPreset
    \/ SdkNoteOn
    \/ SdkNoteOff
    \/ SdkSetVolume
    \/ SdkLoadPreset
    \/ SdkDestroy

\* the pipeline with destroy() called on either VitalSDK object and init()
\* called again on the worklet-mode one
NextDestroy ==
    \/ BringUp
    \/ SdkDestroy
    \/ SdkInitAgain

\* the pipeline with each run of the render loop in two steps, the audio
\* thread free to take a quantum between them
NextRender ==
    \/ Control
    \/ RenderCheck
    \/ RenderWrite
    \/ WorkletProcess

\* the pipeline with the keys played and the render loop run statement by
\* statement, the audio thread free to take a quantum at any point
NextLoop ==
    \/ Control
    \/ LoopEnter
    \/ LoopLookAhead
    \/ LoopSpace
    \/ LoopRender
    \/ LoopWrite
    \/ LoopRecheck
    \/ WorkletProcess
    \/ StoreNoteOn
    \/ StoreNoteOff

\* the pipeline with presets loaded
NextPreset ==
    \/ BringUp
    \/ StoreLoadPreset
    \/ WorkerOnLoadPreset

\* new VitalSDK({bufferSize, useWorklet: true}) before init(): no worker, no
\* worklet node, nothing posted
NewSdk(bufferSize) ==
    [pc |-> "new", initialized |-> FALSE, destroyed |-> FALSE,
     audioContext |-> "none",
     worker |-> FALSE, buffers |-> FALSE, workletNode |-> "none", promise |-> "none",
     onReady |-> 0, onError |-> 0, error |-> "none",
     bufferSize |-> JsOr(bufferSize, TargetAhead)]

\* the module variables of piano_worker.js as its script leaves them, lines
\* 28-46
NewWorker ==
    [pc |-> "boot", isReady |-> FALSE, moduleInstance |-> FALSE,
     audioRingBuffer |-> FALSE, commandRingBuffer |-> FALSE,
     bufferSize |-> BlockFrames, targetBufferSize |-> 0,
     sampleRate |-> 0, initialVolume |-> InitVolume,
     config |-> [sampleRate |-> 0, bufferSize |-> 0, volume |-> 0,
                 presetData |-> "none"],
     loop |-> "none", chain |-> 0]

\* new VitalSDK({bufferSize, useWorklet: false})
NewLegacy ==
    [pc |-> "new", initialized |-> FALSE, destroyed |-> FALSE,
     audioContext |-> "none", moduleInstance |-> FALSE,
     scriptNode |-> FALSE, onReady |-> 0, onError |-> 0,
     error |-> "none", bufferSize |-> TargetAhead]

\* the worklet-mode SDK with its worker and its processor before init()
HsInitWith(bufferSize) ==
    /\ sdk = NewSdk(bufferSize)
    /\ wk = NewWorker
    /\ wl = [audioRingBuffer |-> FALSE, keepAlive |-> TRUE]
    /\ toWorker = <<>>
    /\ toWorklet = <<>>
    /\ fromWorker = <<>>
    /\ fromWorklet = <<>>
    /\ engineLog = <<>>
    /\ posted = <<>>
    /\ received = {}

\* the SDK with the default look-ahead
HsInit == HsInitWith(TargetAhead)

\* the store as defineStore leaves it, the worklet mode asked for or not
\* (localStorage force_script_processor)
StoreInit ==
    /\ store \in [pc : {"idle"}, called : {FALSE}, isInitialized : {FALSE},
                  isLoading : {FALSE}, initializationError : {"none"},
                  processorType : {"Unknown"}, vitalInstance : {"none"},
                  forceScriptProcessor : BOOLEAN, attempts : {0},
                  retries : {0}, runs : {0}]
    /\ legacy = NewLegacy
    /\ mainEngineLog = <<>>
    /\ noteLog = <<>>
    /\ presetLog = <<>>
    /\ clock = "loop"
    /\ api = [calls |-> 0, last |-> NoCall]

\* both buffers as their constructors leave them, the SDK not yet initialised
Init == RbInit /\ AbInit /\ HsInit /\ StoreInit

\* the RingBuffer fresh, the AudioRingBuffer about to wrap its indices
InitAudioWrap == RbInit /\ AbInitWrap /\ HsInit /\ StoreInit

\* the AudioRingBuffer fresh, the RingBuffer about to wrap its indices
InitRingWrap == RbInitWrap /\ AbInit /\ HsInit /\ StoreInit

SpecAudio == Init /\ [][AbNext]_vars

SpecAudioWrap == InitAudioWrap /\ [][AbNext]_vars

SpecRing == Init /\ [][RbNext]_vars

SpecRingWrap == InitRingWrap /\ [][RbNext]_vars

\* the RingBuffer of a size that takes a payload of PrefixRange bytes
InitLarge == RbInitLarge /\ AbInit /\ HsInit /\ StoreInit

SpecLarge == InitLarge /\ [][LargeNext]_vars

\* the bring-up of the pipeline
Spec == Init /\ [][Next]_vars

SpecPreset == Init /\ [][NextPreset]_vars

SpecApi == Init /\ [][NextApi]_vars

SpecDestroy == Init /\ [][NextDestroy]_vars

\* initialize() called again, by LoadingScreen.retry (part_000 10-12) or by
\* any other caller, between two tasks of the main thread: nothing when the
\* store is loading or initialised; else as the first call, with new
\* VitalSDK objects (part_003 62-65, 77-80), hence a new worker, new
\* buffers and new queues.  The objects of the attempt before are dropped
\* by the store and followed no further.
StoreRetry ==
    /\ store.called
    /\ store.retries < MaxRetries
    /\ sdk.pc \in {"new", "addModule", "awaiting", "done", "failed"}
    /\ IF InitializeRuns(store)
       THEN /\ store' = [store EXCEPT !.retries = store.retries + 1,
                                      !.runs = store.runs + 1,
                                      !.isLoading = TRUE,
                                      !.initializationError = "none",
                                      !.attempts = 1,
                                      !.pc = IF store.forceScriptProcessor
                                             THEN "legacy" ELSE "worklet"]
            /\ sdk' = NewSdk(sdk.bufferSize)
            /\ wk' = NewWorker
            /\ wl' = [audioRingBuffer |-> FALSE, keepAlive |-> TRUE]
            /\ toWorker' = <<>> /\ toWorklet' = <<>>
            /\ fromWorker' = <<>> /\ fromWorklet' = <<>>
            /\ engineLog' = <<>> /\ posted' = <<>> /\ received' = {}
            /\ rbHeader' = [k \in {0, 1} |-> 0]
            /\ rbBuffer' = [k \in DOMAIN rbBuffer |-> 0]
            /\ wr' = WrIdle /\ rd' = RdIdle /\ rbCalls' = 0
            /\ rbAccepted' = <<>> /\ rbDelivered' = <<>> /\ rbQuiet' = FALSE
            /\ abHeader' = [k \in {0, 1} |-> 0]
            /\ abBuffer' = [k \in DOMAIN abBuffer |-> 0]
            /\ aw' = AwIdle /\ ar' = ArIdle
            /\ out' = [c \in {0, 1} |-> [i \in 0..(OutLength - 1) |-> 0]]
            /\ abCalls' = 0 /\ abFrames' = 0
            /\ abAccepted' = <<>> /\ abDelivered' = <<>>
            /\ legacy' = NewLegacy
            /\ mainEngineLog' = <<>>
       ELSE /\ store' = [store EXCEPT !.retries = store.retries + 1]
            /\ UNCHANGED <<rbVars, abVars, hsVars, legacy, mainEngineLog>>
    /\ UNCHANGED <<noteLog, presetLog, clock, api>>

\* the bring-up with initialize() called again
NextRetry ==
    \/ Control
    \/ StoreRetry

SpecRetry == Init /\ [][NextRetry]_vars

SpecLoop == Init /\ [][NextLoop]_vars

\* the buffer sizes of the settings followed under the paced scheduling:
\* the default, and a custom size beyond the capacity of the audio buffer
TargetBeyond == AudioCap + BlockFrames + 1
BufferSizes == {TargetAhead, TargetBeyond}

InitPaced ==
    /\ RbInit /\ AbInit /\ StoreInit
    /\ \E bufferSize \in BufferSizes : HsInitWith(bufferSize)

SpecPaced == InitPaced /\ [][NextPaced]_vars

SpecRender == InitPaced /\ [][NextRender]_vars

\* One buffer is exercised in a behaviour, the other stays as constructed: the
\* two buffers share no memory and no index, so every reachable state of
\* either buffer is reached.
RbFresh == rbCalls = 0 /\ rd = RdIdle /\ ~rbQuiet
AbFresh == abCalls = 0 /\ ar = ArIdle

BuffersNext ==
    \/ AbFresh /\ RbNext
    \/ RbFresh /\ AbNext

SpecBuffers == Init /\ [][BuffersNext]_vars

(***************************************************************************)
(* Claims on the RingBuffer.                                               *)
(***************************************************************************)
IsPrefix(s, t) == Len(s) <= Len(t) /\ SubSeq(t, 1, Len(s)) = s

\* C1: the views passed to the drain callback are, in order and byte for
\* byte, a prefix of the payloads whose write returned true, and a drain that
\* began after the producer stopped has delivered all of them when it ends.
C1_FifoExactlyOnce ==
    /\ IsPrefix(rbDelivered, rbAccepted)
    /\ (rd.pc = "idle" /\ rbQuiet) => rbDelivered = rbAccepted

\* C1 witness: three records were accepted, one of them stored across the end
\* of the data region while the consumer was draining, and all were delivered
C1_Witness ==
    /\ Len(rbAccepted) = MaxCmdWrites
    /\ rbDelivered = rbAccepted
    /\ rbHeader[0] > CmdSize
    /\ rd.pc = "idle" /\ rbQuiet

\* slots of the record the producer is storing and has not published
RbPending ==
    IF wr.pc \in {"length", "data", "publish"}
    THEN {RemAdd(wr.writeIndex, k, CmdSize) : k \in 0..Len(wr.data)}
    ELSE {}

\* the slot the consumer loads in its next step
RbNextLoad ==
    IF rd.pc = "loop" /\ RbLoopCond(rd) THEN {JsRem(rd.readIndex, CmdSize)}
    ELSE IF rd.pc = "data" THEN {RbDataSlot(rd.readIndex, rd.i)}
    ELSE {}

\* C4: the consumer never loads a slot of a record that is being stored and
\* is not yet published; every view passed to the callback is a payload whose
\* publication had happened; and when the write index has just been stored
\* the length byte and every payload byte of the record are in the buffer.
C4_NoTornRecord ==
    /\ RbNextLoad \cap RbPending = {}
    /\ \A k \in 1..Len(rbDelivered) :
          k <= Len(rbAccepted) /\ rbDelivered[k] = rbAccepted[k]
    /\ (wr.pc = "idle" /\ wr.ret = "true") =>
          LET start == rbHeader[0] - (Len(wr.data) + 1)
          IN  /\ rbBuffer[start % CmdSize] = Len(wr.data)
              /\ \A i \in 1..Len(wr.data) :
                    rbBuffer[(start + i) % CmdSize] = wr.data[i]

\* C4 witness: the consumer is copying the payload of one record while the
\* producer is storing the payload of the next
C4_Witness ==
    /\ wr.pc = "data"
    /\ rd.pc = "data"

\* the step in which a write call decides to accept or reject
RbDecides == wr.pc = "idle" /\ rbCalls' = rbCalls + 1

\* C5: write returns false exactly when size - (writeIndex - readIndex) is
\* less than data.length + 1, so always for a payload of size bytes; a
\* rejected write changes neither index nor any data byte, and the same
\* write is rejected again on the state it leaves.
C5_RejectExact ==
    [][RbDecides =>
        LET required == Len(wr'.data) + 1
            full == CmdSize - (rbHeader[0] - rbHeader[1]) < required
            fullAfter == CmdSize - (rbHeader'[0] - rbHeader'[1]) < required
        IN  /\ (wr'.ret = "false") <=> full
            /\ (wr'.ret # "false") <=> (wr'.pc = "length")
            /\ Len(wr'.data) >= CmdSize => wr'.ret = "false"
            /\ wr'.ret = "false" =>
                  /\ rbHeader' = rbHeader
                  /\ rbBuffer' = rbBuffer
                  /\ fullAfter]_vars

\* C5 witness: a payload that would fit an empty queue was rejected because
\* the unread records leave too little room
C5_Witness ==
    /\ wr.pc = "idle" /\ wr.ret = "false"
    /\ Len(wr.data) + 1 <= CmdSize
    /\ rbHeader[0] - rbHeader[1] > 0

(***************************************************************************)
(* Claims on the AudioRingBuffer.                                          *)
(***************************************************************************)
\* slots of the run the producer is copying and has not published
AbPending ==
    IF aw.pc \in {"copy", "publish"}
    THEN {AbSlot(AbOffset(aw.writeIndex), Len(aw.input), k) :
             k \in 0..(Len(aw.input) - 1)}
    ELSE {}

\* slots of the run the consumer is de-interleaving
AbReading ==
    IF ar.pc = "copy"
    THEN {AbSlot(AbOffset(ar.readIndex), ar.frames * ChannelCount, k) :
             k \in 0..((ar.frames * ChannelCount) - 1)}
    ELSE {}

\* the frames stored between the read index and the write index
AbStored ==
    [f \in 1..(abHeader[0] - abHeader[1]) |->
        LET slot == ((abHeader[1] + f - 1) % AudioCap) * ChannelCount
        IN  <<abBuffer[slot], abBuffer[slot + 1]>>]

\* C2: the frames handed out by successful reads are, in order, a prefix of
\* the frames accepted by writes; with both sides idle the delivered frames
\* followed by the stored ones are exactly the accepted ones; sample c of the
\* i-th frame of a read is in outputChannels[c][i]; and the run the consumer
\* reads never overlaps the run the producer is writing.
C2_AudioFifo ==
    /\ IsPrefix(abDelivered, abAccepted)
    /\ (aw.pc = "idle" /\ ar.pc = "idle") =>
          abDelivered \o AbStored = abAccepted
    /\ (ar.pc = "idle" /\ ar.ret = "true") =>
          \A i \in 0..(ar.frames - 1) : \A c \in {0, 1} :
             out[c][i] = abAccepted[(Len(abDelivered) - ar.frames) + i + 1][c + 1]
    /\ AbReading \cap AbPending = {}

\* C2 witness: a two-frame read that began on the last frame of the data region
\* and continued at its start has returned true, and every accepted frame has
\* been delivered
C2_Witness ==
    /\ ar.pc = "idle" /\ ar.ret = "true" /\ ar.frames = 2
    /\ abHeader[1] % AudioCap = 1
    /\ abHeader[1] > AudioCap
    /\ aw.pc = "idle"
    /\ abDelivered = abAccepted

\* C3: in both buffers the write index is never behind the read index and
\* never more than the capacity ahead of it; with neither side in a call
\* availableRead() + availableWrite() is the capacity; and the free space a
\* producer computed, or the readable amount a consumer computed, is at most
\* the true one while its call runs.
C3_IndexBounds ==
    /\ 0 <= rbHeader[0] - rbHeader[1] /\ rbHeader[0] - rbHeader[1] <= CmdSize
    /\ 0 <= abHeader[0] - abHeader[1] /\ abHeader[0] - abHeader[1] <= AudioCap
    /\ (aw.pc = "idle" /\ ar.pc = "idle") =>
          availableRead + availableWrite = AudioCap
    /\ ar.pc # "idle" => ar.available <= abHeader[0] - abHeader[1]
    /\ aw.pc # "idle" => aw.available <= AudioCap - (abHeader[0] - abHeader[1])
    /\ wr.pc # "idle" => wr.available <= CmdSize - (rbHeader[0] - rbHeader[1])
    /\ rd.pc # "idle" => rd.writeIndex <= rbHeader[0]

\* C3 witness: the consumer is inside a read whose availableRead() is smaller
\* than the true amount, the producer having published meanwhile, and the
\* buffer is full
C3_Witness ==
    /\ ar.pc = "copy"
    /\ ar.available < abHeader[0] - abHeader[1]
    /\ abHeader[0] - abHeader[1] = AudioCap

\* the step in which an AudioRingBuffer.write call accepts or rejects
AbWriteDecides == aw.pc = "idle" /\ abCalls' = abCalls + 1

\* C6: write returns 0 when the frames exceed availableWrite(), always for
\* capacity + 1 frames, and then changes neither index nor any sample;
\* otherwise it copies, touching only the slots of its run, and ends by
\* returning the frame count with exactly those frames stored and the write
\* index advanced by that count (so a write of all the free frames leaves none
\* free).
C6_WriteAllOrNothing ==
    [][/\ AbWriteDecides =>
            LET n == Len(aw'.input) \div ChannelCount
                free == AudioCap - (abHeader[0] - abHeader[1])
            IN  /\ n > free => /\ aw'.pc = "idle" /\ aw'.ret = 0
                               /\ abHeader' = abHeader
                               /\ abBuffer' = abBuffer
                /\ n <= free => aw'.pc = "copy"
                /\ n = AudioCap + 1 => aw'.ret = 0
       /\ (aw.pc = "copy" /\ aw' # aw) =>
            /\ abHeader' = abHeader
            /\ \A slot \in DOMAIN abBuffer :
                  slot \notin AbPending => abBuffer'[slot] = abBuffer[slot]
       /\ (aw.pc = "publish" /\ aw'.pc = "idle") =>
            LET n == Len(aw.input) \div ChannelCount
            IN  /\ aw'.ret = n
                /\ abHeader'[0] = abHeader[0] + n
                /\ abHeader'[1] = abHeader[1]
                /\ \A f \in 0..(n - 1) : \A c \in {0, 1} :
                      abBuffer'[(((abHeader[0] + f) % AudioCap) * ChannelCount) + c]
                         = aw.input[(f * ChannelCount) + c + 1]
                /\ AudioCap - (abHeader'[0] - abHeader'[1])
                      = (AudioCap - (abHeader[0] - abHeader[1])) - n]_vars

\* C6 witness: a write of exactly the free frames of a partly filled buffer
\* returned their count and the buffer is full
C6_Witness ==
    /\ aw.pc = "idle" /\ aw.ret = aw.available
    /\ aw.ret > 0 /\ aw.ret < AudioCap
    /\ AudioCap - (abHeader[0] - abHeader[1]) = 0

\* C7: a read of more frames than availableRead() returns false and changes
\* neither index nor any output sample; a read of at most availableRead()
\* frames goes on to copy, leaves the indices alone while it copies, and ends
\* by returning true with the read index advanced by exactly the frame count.
C7_ReadAllOrNothing ==
    [][/\ (ar.pc = "idle" /\ ar' # ar) =>
            LET n == ar'.frames
                readable == abHeader[0] - abHeader[1]
            IN  /\ n > readable => /\ ar'.pc = "idle" /\ ar'.ret = "false"
                                   /\ abHeader' = abHeader
                                   /\ out' = out
                /\ n <= readable => ar'.pc = "copy"
       /\ ar.pc = "copy" => abHeader'[1] = abHeader[1]
       /\ (ar.pc = "store" /\ ar'.pc = "idle") =>
            /\ ar'.ret = "true"
            /\ abHeader'[1] = abHeader[1] + ar.frames
            /\ abHeader'[0] = abHeader[0]]_vars

\* C7 witness: one frame was readable, two were asked for, the read returned
\* false and the output still holds what an earlier read left there
C7_Witness ==
    /\ ar.pc = "idle" /\ ar.ret = "false"
    /\ ar.frames = 2 /\ ar.available = 1
    /\ out[0][0] # 0

\* ---------------------------------------------------------------------------
\* The bring-up handshake (Spec)
\* ---------------------------------------------------------------------------

\* the message was posted
Sent(m) == \E i \in DOMAIN posted : posted[i] = m

\* m was posted, and before n
SentBefore(m, n) ==
    \E i, j \in DOMAIN posted : i < j /\ posted[i] = m /\ posted[j] = n

\* the pipeline is Ready: the handshake promise resolved, onReady fired or the
\* worklet node connected to the destination
PipelineReady ==
    \/ sdk.promise = "resolved"
    \/ sdk.onReady > 0
    \/ sdk.workletNode = "connected"

C20_EngineGetsInitConfig ==
    engineLog # <<>> =>
        /\ engineLog[1] = <<"init", SampleRate, BlockFrames>>
        /\ Len(engineLog) >= 2 /\ engineLog[2] = <<"volume", InitVolume>>

\* ---------------------------------------------------------------------------
\* C11: the fallback to the ScriptProcessor mode
\* ---------------------------------------------------------------------------

\* the engine calls the calls of log make when each is applied as it is made
DirectCalls(log) ==
    [i \in 1..Len(log) |->
        IF log[i].op = "noteOn" THEN <<"note_on", log[i].note, log[i].velocity>>
        ELSE <<"note_off", log[i].note>>]

\* initialize() has returned and the init() of the worklet mode had failed
WorkletInitFailed ==
    store.called /\ ~store.isLoading /\ sdk.pc = "failed"

TimesSent(sender, type) ==
    Cardinality({i \in DOMAIN posted : posted[i] = <<sender, type>>})

\* the worker has answered the init with error and with nothing before it:
\* init() has rejected with the worker's message and called onError
WorkerErrorSurfaced ==
    (<<"worker", "error">> \in received /\ <<"worker", "ready">> \notin received)
        => /\ sdk.pc = "failed"
           /\ sdk.error = "worker-error"
           /\ sdk.onError = 1
           /\ ~sdk.initialized

\* the init of the worklet mode is made once: one region message and one init
\* message at most are ever posted
NoSecondHandshake ==
    /\ TimesSent("sdk", "init-audio-sab") <= 1
    /\ TimesSent("sdk", "init") <= 1

\* the worker never handles a message, and no message that could settle
\* init() is in flight or will ever be: init() is pending for ever
HandshakeStuck ==
    /\ wk.pc = "dead"
    /\ sdk.pc = "awaiting"
    /\ fromWorker = <<>>

\* C12 as stated: a context that fails the handshake, by replying error or
\* by never acknowledging, has its failure surfaced with the cause, and the
\* handshake is not attempted again
C12_HandshakeFailureSurfaced ==
    /\ WorkerErrorSurfaced
    /\ NoSecondHandshake
    /\ ~HandshakeStuck

\* ---------------------------------------------------------------------------
\* C13: the engine failing in a render of the running loop
\* ---------------------------------------------------------------------------

\* a run of renderLoop started by its timer or its microtask has thrown, and
\* every message the worker has posted has been handled
RenderLoopStopped == wk.pc = "stopped" /\ fromWorker = <<>>

\* C13 as stated: once the render loop has stopped on a failure of the
\* engine, the pipeline is in error: the cause has reached onError and the
\* store, and the pipeline is not reported as Ready
C13_RenderFailureSurfaced ==
    RenderLoopStopped =>
        /\ sdk.onError > 0
        /\ ~(store.isInitialized /\ store.initializationError = "none")

\* ---------------------------------------------------------------------------
\* C15, C16: note events through the command queue
\* ---------------------------------------------------------------------------

\* the fractions p and q are the same number
SameNumber(p, q) == p[1] * q[2] = q[1] * p[2]

\* the engine calls a and b are the same call with the same arguments
SameCall(a, b) ==
    /\ a[1] = b[1] /\ a[2] = b[2]
    /\ Len(a) = Len(b)
    /\ Len(a) = 3 => SameNumber(a[3], b[3])

\* the calls of s are the first calls of t
CallsPrefix(s, t) ==
    /\ Len(s) <= Len(t)
    /\ \A i \in 1..Len(s) : SameCall(s[i], t[i])

\* the note calls the worker's engine has received, in order
EngineNotes ==
    SelectSeq(engineLog, LAMBDA c : c[1] \in {"note_on", "note_off"})

\* the calls of the store that the command queue accepted, in order
QueuedNotes == SelectSeq(noteLog, LAMBDA n : n.queued)

\* the calls of log with the velocity taken down to a multiple of 1/127
QuantisedCalls(log) ==
    [i \in 1..Len(log) |->
        IF log[i].op = "noteOn"
        THEN <<"note_on", log[i].note,
               <<(log[i].velocity[1] * 127) \div log[i].velocity[2], 127>>>>
        ELSE <<"note_off", log[i].note>>]

\* C15 as stated: the engine receives the calls that fitted in the queue, in
\* their order and with the arguments that were passed
C15_EngineGetsSameCalls ==
    /\ CallsPrefix(EngineNotes, DirectCalls(QueuedNotes))
    /\ rbHeader[0] = rbHeader[1] => Len(EngineNotes) = Len(QueuedNotes)

\* C15 amended: the engine receives the calls that fitted in the queue, in
\* their order and with their note; the velocity of a note-on arrives as
\* floor(velocity * 127) / 127, and all of them have arrived once the queue
\* is empty
C15_EngineGetsQuantisedCalls ==
    /\ CallsPrefix(EngineNotes, QuantisedCalls(QueuedNotes))
    /\ rbHeader[0] = rbHeader[1] => Len(EngineNotes) = Len(QueuedNotes)

\* noteOn(60, 0.8) then noteOff(60) were queued and have reached the engine
C15_Witness ==
    /\ Len(EngineNotes) = 2
    /\ Len(noteLog) = 2
    /\ noteLog[1].op = "noteOn" /\ noteLog[1].velocity = <<8, 10>>
    /\ noteLog[2].op = "noteOff"
    /\ EngineNotes[1][1] = "note_on" /\ EngineNotes[2][1] = "note_off"

\* C16 as stated: a noteOff issued on a Ready pipeline of the worklet mode
\* is never dropped: the command queue takes its record (from where the
\* render loop applies it to the engine)
C16_NoteOffNeverDropped ==
    \A i \in DOMAIN noteLog :
        (noteLog[i].op = "noteOff" /\ noteLog[i].backend = "sdk")
            => noteLog[i].queued

\* ---------------------------------------------------------------------------
\* C14: loadPreset with a payload that cannot be loaded
\* ---------------------------------------------------------------------------

\* every loadPreset whose text does not parse was rejected, in both modes
UnparsedPresetRejects ==
    \A i \in DOMAIN presetLog :
        ParseThrows(presetLog[i].preset) => presetLog[i].result = "rejected"

\* every loadPreset of the ScriptProcessor mode that the engine did not take
\* was rejected
LegacyBadPresetRejects ==
    \A i \in DOMAIN presetLog :
        (presetLog[i].backend = "legacy" /\ presetLog[i].preset # "valid")
            => presetLog[i].result = "rejected"

\* C14 as stated: a loadPreset whose payload does not parse, or which the
\* engine rejects or throws on, is rejected in both modes, and the store
\* stays initialised
C14_BadPresetRejects ==
    \A i \in DOMAIN presetLog :
        presetLog[i].preset # "valid" =>
            /\ presetLog[i].result = "rejected"
            /\ store.isInitialized

\* ---------------------------------------------------------------------------
\* C17, C18: the depth of the audio buffer under the paced scheduling
\* ---------------------------------------------------------------------------

\* the smaller of two numbers, and how far apart two numbers are
Least(a, b) == IF a <= b THEN a ELSE b
Apart(a, b) == IF a <= b THEN b - a ELSE a - b

\* the blocks the render loop writes before bufferedFrames >= target
BlocksFor(target) == (target + BlockFrames - 1) \div BlockFrames

\* the render loop has caught up at least once: it has yielded with nothing
\* to do, or a quantum has been taken, which waits for that
Settled == clock = "quantum" \/ abDelivered # <<>>

\* the render loop is running and has not caught up yet
CatchingUp == wk.pc = "started" /\ ~Settled

DefaultTarget == wk.pc = "started" /\ wk.targetBufferSize = TargetAhead

\* C18: with the target of the default configuration and a consumer that
\* takes a quantum only after the render loop has caught up, the depth in
\* steady state is between the target (rounded up to whole blocks) less a
\* quantum and that target, and no process() underruns: whenever a quantum
\* may be taken, a quantum is buffered
C18_SteadyDepth ==
    DefaultTarget =>
        /\ Settled =>
              /\ availableRead >= (BlocksFor(TargetAhead) * BlockFrames)
                                      - QuantumFrames
              /\ availableRead <= BlocksFor(TargetAhead) * BlockFrames
        /\ clock = "quantum" => ~AbUnderrun(availableRead, QuantumFrames)

\* steady state: a quantum has been taken and the loop has topped the
\* buffer up to the target again
C18_Witness ==
    /\ DefaultTarget
    /\ abDelivered # <<>>
    /\ wl.audioRingBuffer
    /\ clock = "quantum"
    /\ availableRead = BlocksFor(TargetAhead) * BlockFrames

\* ---------------------------------------------------------------------------
\* C19: one call of process
\* ---------------------------------------------------------------------------

\* the output arrays as the host hands them to process: zeroes
SilentOut == [c \in {0, 1} |-> [i \in 0..(OutLength - 1) |-> 0]]

\* C19: a call of process makes at most one read, of exactly the quantum:
\* with the region and a quantum buffered, readIndex advances by the quantum
\* and the quantum's frames are delivered; on underrun, and before the
\* region has been received, the outputs are silence and readIndex is not
\* advanced; in both cases process returns true and writes nothing to the
\* buffer
C19_ProcessReadsOnceOrSilence ==
    [][WorkletProcess =>
          /\ wl'.keepAlive
          /\ abHeader'[0] = abHeader[0]
          /\ abBuffer' = abBuffer
          /\ IF wl.audioRingBuffer /\ availableRead >= QuantumFrames
             THEN /\ abHeader'[1] = ToInt32Add(abHeader[1], QuantumFrames)
                  /\ Len(abDelivered') = Len(abDelivered) + QuantumFrames
             ELSE /\ out' = SilentOut
                  /\ abHeader'[1] = abHeader[1]
                  /\ abDelivered' = abDelivered]_vars

\* the worklet has the region, has delivered frames before, and its last
\* call found the buffer empty and left silence
C19_Witness ==
    /\ wl.audioRingBuffer
    /\ abDelivered # <<>>
    /\ availableRead = 0
    /\ out = SilentOut

\* ---------------------------------------------------------------------------
\* C21: the indices past the largest value of their 32-bit cells
\* ---------------------------------------------------------------------------

\* index % capacity as the code computes it is a slot of the buffer
SlotInRange(index, capacity) ==
    JsRem(index, capacity) >= 0 /\ JsRem(index, capacity) < capacity

\* write threw: it returned nothing for an input it was given
AbWriteThrew == aw.pc = "idle" /\ aw.input # <<>> /\ aw.ret = Undefined

\* C21 as stated, on the AudioRingBuffer after MaxInt32 - WrapMargin frames
\* have passed through it: availableRead() stays within 0..capacity, the
\* slot of either index stays within the buffer, no write throws, and the
\* frames read are, in order, the frames written
C21_IndicesSurviveWrap ==
    /\ availableRead >= 0 /\ availableRead <= AudioCap
    /\ SlotInRange(abHeader[0], AudioCap)
    /\ SlotInRange(abHeader[1], AudioCap)
    /\ ~AbWriteThrew
    /\ IsPrefix(abDelivered, abAccepted)

\* ---------------------------------------------------------------------------
\* C22: what destroy() leaves of the worklet pipeline
\* ---------------------------------------------------------------------------

\* the worker runs nothing and will run nothing
WorkerStopped == wk.loop = "none" /\ wk.pc \in {"boot", "dead"}

\* C22 as stated: once destroy() has returned on the SDK of the worklet mode
\* the worker is terminated, the worklet node is disconnected and the SDK
\* holds neither buffer
C22_DestroyReleasesAll ==
    sdk.destroyed =>
        /\ ~sdk.worker /\ WorkerStopped
        /\ sdk.workletNode # "connected"
        /\ ~sdk.buffers

\* the part of C22 the code keeps: after destroy() no block is rendered, no
\* command is drained, no engine call is made and no frame is read
DestroyedIsStill ==
    [][sdk.destroyed /\ sdk'.destroyed =>
          UNCHANGED <<rbVars, abHeader, abBuffer, abAccepted, abDelivered,
                      engineLog>>]_vars

\* destroy() was called on a pipeline that was running
DestroyedWhileRunning ==
    /\ sdk.destroyed /\ sdk.workletNode = "connected" /\ abAccepted # <<>>

\* ---------------------------------------------------------------------------
\* C23: destroy() twice, and the methods of an SDK that is not initialised
\* ---------------------------------------------------------------------------

\* everything but the record of the owner's calls
notApi == <<rbVars, abVars, hsVars, store, legacy, mainEngineLog, noteLog,
            presetLog, clock>>

\* the step is a call of the owner
IsCall == api'.calls = api.calls + 1

\* C23: a destroy() on an object already destroyed changes nothing and
\* returns; on an object that is not initialised (never initialised, failed
\* to initialise, or destroyed) noteOn, noteOff and setVolume change nothing
\* (no buffer written, no message posted, no engine called) and loadPreset
\* changes nothing and rejects
C23_InertWhenNotInitialized ==
    [][IsCall =>
        LET call == api'.last
        IN  /\ (call.op = "destroy" /\ call.destroyed) =>
                   UNCHANGED notApi /\ call.result = "returned"
            /\ (call.op \in {"noteOn", "noteOff", "setVolume"}
                    /\ ~call.initialized) =>
                   /\ UNCHANGED notApi
                   /\ ~call.wrote /\ ~call.posted /\ ~call.engine
                   /\ call.result = "returned"
            /\ (call.op = "loadPreset" /\ ~call.initialized) =>
                   /\ UNCHANGED notApi
                   /\ ~call.posted /\ ~call.engine
                   /\ call.result = "rejected"]_vars

\* noteOn was called on the SDK of the worklet mode after its init() had
\* failed, the worker and the command buffer still held
C23_Witness ==
    /\ api.last.op = "noteOn" /\ api.last.target = "sdk"
    /\ ~api.last.initialized /\ api.last.pc = "failed"
    /\ sdk.worker /\ sdk.buffers
    /\ rbAccepted = <<>>

\* ---------------------------------------------------------------------------
\* C24: what loadPreset changes
\* ---------------------------------------------------------------------------

\* the call was made on an SDK whose init() had resolved
OnReady(call) == call.initialized /\ call.pc = "done"

\* C24: loadPreset on the initialised SDK of the worklet mode posts one
\* load-preset message to the worker (none when the text does not parse) and
\* on the SDK of the ScriptProcessor mode calls the engine and posts
\* nothing; in both it leaves the two buffers, the worker, the worklet and
\* the SDK object as they were
C24_LoadPresetFrame ==
    [][IsCall /\ api'.last.op = "loadPreset" /\ OnReady(api'.last) =>
        LET call == api'.last
            parses == ~ParseThrows(call.arg)
            message == [type |-> "load-preset", presetData |-> call.arg]
        IN  /\ UNCHANGED <<rbVars, abVars, sdk, legacy, wk, wl, toWorklet,
                           fromWorker, fromWorklet, engineLog, received>>
            /\ call.target = "sdk" =>
                  /\ toWorker' = IF parses THEN Append(toWorker, message)
                                 ELSE toWorker
                  /\ posted' = IF parses
                               THEN Append(posted, <<"sdk", "load-preset">>)
                               ELSE posted
                  /\ mainEngineLog' = mainEngineLog
            /\ call.target = "legacy" =>
                  /\ toWorker' = toWorker /\ posted' = posted
                  /\ mainEngineLog' =
                        IF parses
                        THEN Append(mainEngineLog, <<"load_preset", call.arg>>)
                        ELSE mainEngineLog]_vars

\* a preset was loaded on the running worklet pipeline: the message waits in
\* the worker's queue
C24_Witness ==
    /\ api.last.op = "loadPreset" /\ api.last.target = "sdk"
    /\ OnReady(api.last) /\ api.last.arg = "valid" /\ api.last.posted
    /\ wk.pc = "started" /\ sdk.workletNode = "connected"
    /\ toWorker # <<>>
    /\ toWorker[Len(toWorker)] = [type |-> "load-preset", presetData |-> "valid"]

\* ---------------------------------------------------------------------------
\* C25: notes played while the pipeline is initialising
\* ---------------------------------------------------------------------------

\* the main thread has handled the worker's ready
ReadyReceived == <<"worker", "ready">> \in received

\* the engine of the worker has been given a note
EngineHasNote ==
    \E i \in DOMAIN engineLog : engineLog[i][1] \in {"note_on", "note_off"}

\* C25 as stated: until the SDK has received the worker's ready no record is
\* written to the command buffer and no note is handed to the engine
C25_NoNoteBeforeReady ==
    ~ReadyReceived => /\ rbHeader[0] = 0 /\ rbAccepted = <<>>
                      /\ ~EngineHasNote

\* ---------------------------------------------------------------------------
\* C26: what the failed attempt leaves behind the fallback
\* ---------------------------------------------------------------------------

\* the store runs on the SDK of the ScriptProcessor mode after the worklet
\* mode has failed
Degraded ==
    /\ store.vitalInstance = "legacy"
    /\ store.processorType = "ScriptProcessorNode (Fallback)"

\* the SDK object holds a context that is not closed, or a worker that is
\* not terminated
HoldsLiveContext(s) ==
    \/ s.audioContext = "running"
    \/ "worker" \in DOMAIN s /\ s.worker

\* C26 as stated: while the fallback is active the SDK of the failed
\* attempt holds no live context, no worker and no buffer, so that only the
\* fallback holds a live context
C26_FallbackAlone ==
    Degraded => /\ ~HoldsLiveContext(sdk)
                /\ ~sdk.buffers
                /\ HoldsLiveContext(legacy)

\* ---------------------------------------------------------------------------
\* C27: the same call on the two backends
\* ---------------------------------------------------------------------------

\* the engine call the worklet pipeline makes for a call of the owner:
\* processCommands for the notes, handleCommand for the volume and the preset
EngineCallOf(call) ==
    IF call.op = "noteOn"
    THEN <<"note_on", call.arg[1], NoteVelocity(VelocityByte(call.arg[2]))>>
    ELSE IF call.op = "noteOff" THEN <<"note_off", call.arg[1]>>
    ELSE IF call.op = "loadPreset" THEN <<"load_preset", call.arg>>
    ELSE <<"volume", call.arg>>

\* the call is one that has an engine call to make
Playable(call) ==
    /\ call.op \in {"noteOn", "noteOff", "setVolume", "loadPreset"}
    /\ call.op = "loadPreset" => ~ParseThrows(call.arg)

\* the step adds one call to the engine of the main thread, the same as c
MainEngineGets(c) ==
    /\ Len(mainEngineLog') = Len(mainEngineLog) + 1
    /\ SameCall(mainEngineLog'[Len(mainEngineLog')], c)

\* C27 as stated: a noteOn, noteOff, loadPreset or setVolume on the
\* initialised SDK of the ScriptProcessor mode hands the engine the call,
\* with the arguments, that the worklet pipeline hands its engine
C27_FallbackMakesSameCall ==
    [][IsCall /\ OnReady(api'.last) /\ api'.last.target = "legacy"
              /\ Playable(api'.last)
          => MainEngineGets(EngineCallOf(api'.last))]_vars

\* ---------------------------------------------------------------------------
\* C28: the backend the SDK and the store report
\* ---------------------------------------------------------------------------

\* the handshake of the worklet mode has completed and its worker is held
TransportInUse == sdk.promise = "resolved" /\ sdk.worker

\* rendering runs on the main thread: the script node of the
\* ScriptProcessor mode is connected
RendersInCaller == legacy.scriptNode

\* C28 as stated: isWorklet of the SDK of the worklet mode is true exactly
\* when the handshake has completed and the transport is in use, hence
\* never while init() is pending, after it failed or after destroy(); the
\* store names the worklet backend only then and a ScriptProcessor backend
\* only when the main thread renders
C28_BackendKindReported ==
    /\ IsWorklet(sdk) <=> TransportInUse
    /\ store.processorType = "Audio Worklet" => TransportInUse
    /\ store.processorType \in {"ScriptProcessorNode",
                                "ScriptProcessorNode (Fallback)"}
           => RendersInCaller

\* ---------------------------------------------------------------------------
\* C29: who moves which index, and in which direction
\* ---------------------------------------------------------------------------

\* a step of a write call, of either buffer
ProducerStep ==
    \/ RbWriteBegin \/ RbWriteLength \/ RbWriteData \/ RbWritePublish
    \/ AbWriteBegin \/ AbWriteCopy \/ AbWritePublish

\* a step of a read call, of either buffer
ConsumerStep ==
    \/ RbReadBegin \/ RbReadLength \/ RbReadData \/ RbReadCallback \/ RbReadStore
    \/ AbReadBegin \/ AbReadCopy \/ AbReadStore

\* a call that returns at its test: a write refused, a read of an empty
\* queue, a read that underruns
ReturnsAtOnce ==
    \/ RbWriteBegin /\ wr'.pc = "idle"
    \/ AbWriteBegin /\ aw'.pc = "idle"
    \/ RbReadBegin /\ rd'.pc = "idle"
    \/ AbReadBegin /\ ar'.pc = "idle"

\* a write leaves the read indices, a read the write indices
IndexOwnership ==
    /\ ProducerStep => rbHeader'[1] = rbHeader[1] /\ abHeader'[1] = abHeader[1]
    /\ ConsumerStep => rbHeader'[0] = rbHeader[0] /\ abHeader'[0] = abHeader[0]
    /\ ReturnsAtOnce => UNCHANGED <<rbHeader, abHeader>>

\* no index is stored lower than it was
IndexAdvances ==
    \A k \in {0, 1} : rbHeader'[k] >= rbHeader[k] /\ abHeader'[k] >= abHeader[k]

\* C29 as stated: writes never store the read index, reads never store the
\* write index, a call that fails or finds nothing stores neither, and no
\* index ever decreases
C29_IndexFrame == [][IndexOwnership /\ IndexAdvances]_vars

\* ---------------------------------------------------------------------------
\* C30: the write that follows the overflow test of the render loop
\* ---------------------------------------------------------------------------

\* C30: every block the render loop has rendered was accepted by write,
\* whatever the audio thread read between the test and the write and
\* whatever the target: the frames accepted are the frames offered
C30_NoBlockDiscarded == Len(abAccepted) = abFrames

\* with a target beyond the capacity the loop was held back by its
\* overflow test on a full buffer, the audio thread having read meanwhile
C30_Witness ==
    /\ wk.targetBufferSize = TargetBeyond
    /\ wk.pc = "started" /\ wk.loop = "timeout"
    /\ availableRead = AudioCap
    /\ abDelivered # <<>>
    /\ abCalls = MaxRenders

\* ---------------------------------------------------------------------
\* C31  the look-ahead of the render loop

\* a run of the render loop that has passed its two tests and is about to
\* render its block (piano_worker.js lines 232-252)
AboutToRender == wk.pc = "rendering"

\* the engine's render calls so far
RenderCalls(log) == SelectSeq(log, LAMBDA c : c[1] = "render")

\* C31: the render loop renders a block only when availableRead() was below
\* the target at its check, and one block per run: availableRead() never
\* exceeds target + block - 1; a run that finds availableRead() at or above
\* the target makes no render call and no write; a run that renders makes
\* one render call and writes one block
C31_LookAheadBound ==
    /\ [](availableRead <= (wk.targetBufferSize + wk.bufferSize) - 1)
    /\ [](AboutToRender => availableRead < wk.targetBufferSize)
    /\ [][/\ RenderCheck /\ wk.isReady /\ availableRead >= wk.targetBufferSize
             => /\ ~AboutToRender'
                /\ RenderCalls(engineLog') = RenderCalls(engineLog)
                /\ UNCHANGED abVars
          /\ RenderWrite
             => /\ Len(RenderCalls(engineLog')) = Len(RenderCalls(engineLog)) + 1
                /\ abFrames' = abFrames + wk.bufferSize
                /\ availableRead < wk.targetBufferSize]_vars

\* the loop has rendered up to the bound with the default target, the audio
\* thread reading meanwhile
C31_Witness ==
    /\ wk.pc = "started"
    /\ wk.targetBufferSize = TargetAhead
    /\ TargetAhead < AudioCap
    /\ availableRead = (wk.targetBufferSize + wk.bufferSize) - 1
    /\ abDelivered # <<>>
    /\ Len(RenderCalls(engineLog)) >= 2

\* ---------------------------------------------------------------------
\* C32  the order of the steps of a render-loop run

\* the stage a run may pass to from each stage, as the claim orders them:
\* drain, look-ahead check, free-space check, render, interleave and write,
\* check again
StageOrder ==
    {<<"started", "lookAhead">>, <<"lookAhead", "space">>,
     <<"space", "render">>, <<"render", "write">>, <<"write", "recheck">>,
     <<"recheck", "started">>,
     <<"lookAhead", "started">>, <<"space", "started">>,
     <<"render", "stopped">>}

\* every record the command queue accepted has been applied to the engine,
\* in the order of the calls
AllQueuedApplied(notes) ==
    /\ Len(notes) = Len(QueuedNotes)
    /\ CallsPrefix(notes, QuantisedCalls(QueuedNotes))

\* the note calls of an engine log
NotesOf(log) == SelectSeq(log, LAMBDA c : c[1] \in {"note_on", "note_off"})

\* C32: a run of the render loop goes through drain, look-ahead check,
\* free-space check, render, interleave and write, re-check in that order;
\* the drain applies every record published before it to the engine, in
\* FIFO order, so before the block is rendered; between the drain and the
\* end of the run, in particular between the render and the write, no
\* record is applied; the engine renders only at the render stage, the
\* audio buffer is written only at the write stage and the queue's read
\* index stored only by the drain.  The first run, made inside initWasm, is
\* one step: its notes come before its one render call, which comes last.
C32_RunOrder ==
    [][/\ (wk'.pc # wk.pc /\ (wk.pc \in LoopStages \/ wk'.pc \in LoopStages))
             => <<wk.pc, wk'.pc>> \in StageOrder
       /\ (wk.pc = "started" /\ wk'.pc = "lookAhead")
             => /\ AllQueuedApplied(NotesOf(engineLog'))
                /\ rbDelivered' = rbAccepted
                /\ rbHeader'[1] = rbHeader[0]
       /\ wk.pc \in LoopStages
             => /\ NotesOf(engineLog') = NotesOf(engineLog)
                /\ rbHeader'[1] = rbHeader[1]
       /\ (RenderCalls(engineLog') # RenderCalls(engineLog) /\ ~WorkerInitWasm)
             => /\ wk.pc = "render" /\ wk'.pc = "write"
                /\ engineLog' = Append(engineLog, <<"render", wk.bufferSize>>)
       /\ (abHeader'[0] # abHeader[0] /\ ~WorkerInitWasm)
             => wk.pc = "write" /\ wk'.pc = "recheck"
       /\ (WorkerInitWasm /\ abHeader'[0] # abHeader[0])
             => /\ AllQueuedApplied(NotesOf(engineLog'))
                /\ engineLog'[Len(engineLog')] = <<"render", wk.bufferSize>>
                /\ Len(RenderCalls(engineLog')) = 1]_vars

\* between the render and the write of a block, a record published after
\* the run's drain waits in the queue while an earlier one has been applied
C32_Witness ==
    /\ wk.pc = "write"
    /\ NotesOf(engineLog) # <<>>
    /\ rbHeader[0] # rbHeader[1]
    /\ Len(rbAccepted) = Len(rbDelivered) + 1
    /\ engineLog[Len(engineLog)][1] = "render"

\* ---------------------------------------------------------------------
\* C33  the render loop always schedules its successor

\* the worker lives and its render loop has been started: initWasm sets
\* isReady just before it calls renderLoop()
LoopStarted == wk.isReady /\ wk.pc # "dead"

\* one invocation of renderLoop is pending (a timer or a microtask) or
\* running
OneLoopPending == wk.loop \in {"timeout", "microtask"}

\* C33 as stated: every invocation of renderLoop schedules one successor on
\* every path, so while the worker lives one invocation is pending or
\* running at any time: the loop never stops
C33_LoopNeverStops == LoopStarted => OneLoopPending

\* ---------------------------------------------------------------------
\* C34  one drain of the command queue

\* the bytes a sequence of records takes in the queue: a length byte and
\* the payload each
RECURSIVE QueueBytes(_)
QueueBytes(records) ==
    IF records = <<>> THEN 0
    ELSE Len(Head(records)) + 1 + QueueBytes(Tail(records))

\* a call of read is under way
Draining == rd.pc # "idle"

\* C34: a drain loads writeIndex once; its cursor never passes the loaded
\* value; it visits the records published when it loaded, no more and no
\* fewer, and stores readIndex once, at its end, equal to the loaded
\* writeIndex; records published meanwhile stay for the next drain; a
\* drain of an empty queue calls nothing and stores nothing
C34_DrainFrame ==
    /\ [](Draining => /\ rd.kind = "int"
                      /\ rd.readIndex <= rd.writeIndex
                      /\ rbHeader[1] < rd.writeIndex
                      /\ rd.writeIndex <= rbHeader[0]
                      /\ IsPrefix(rbDelivered, rbAccepted))
    /\ [][/\ (Draining /\ Draining') => rd'.writeIndex = rd.writeIndex
          /\ rbHeader'[1] # rbHeader[1]
                => /\ RbReadStore
                   /\ rbHeader'[1] = rd.writeIndex
                   /\ QueueBytes(rbDelivered) = rd.writeIndex
          /\ RbReadStore
                => /\ rbHeader'[1] = rd.writeIndex
                   /\ rbHeader'[1] # rbHeader[1]
                   /\ ~Draining'
                   /\ QueueBytes(rbDelivered) = rd.writeIndex
          /\ rbDelivered' # rbDelivered => Draining /\ Draining'
          /\ (RbReadBegin /\ rbHeader[1] = rbHeader[0])
                => /\ ~Draining'
                   /\ UNCHANGED <<rbHeader, rbDelivered>>]_vars

\* a drain is about to store its cursor while a record published since it
\* loaded the write index waits for the next drain
C34_Witness ==
    /\ rd.pc = "loop"
    /\ rd.readIndex = rd.writeIndex
    /\ rbDelivered # <<>>
    /\ rbHeader[0] > rd.writeIndex
    /\ Len(rbAccepted) > Len(rbDelivered)

\* ---------------------------------------------------------------------
\* C35  the one-byte length prefix

\* the records decoded so far are the first accepted ones, each with the
\* length of its payload
DecodedLengths ==
    /\ Len(rbDelivered) <= Len(rbAccepted)
    /\ \A i \in DOMAIN rbDelivered : Len(rbDelivered[i]) = Len(rbAccepted[i])

\* the consumer's cursor stands where the producer's write index stood
\* after the last record decoded
CursorOnRecord ==
    /\ Len(rbDelivered) <= Len(rbAccepted)
    /\ rbHeader[1] = QueueBytes(SubSeq(rbAccepted, 1, Len(rbDelivered)))

\* C35 as stated: for every payload write accepts, the consumer decodes the
\* payload's length and its cursor then equals the write index after that
\* record; a payload of 256 bytes or more never makes later records be
\* decoded at a wrong offset
C35_PrefixFrames == DecodedLengths /\ CursorOnRecord /\ IsPrefix(rbDelivered, rbAccepted)

\* ---------------------------------------------------------------------
\* C36  what a resolved init() means

\* the worker has reported ready and the worklet node plays
ReadyAndConnected == ReadyReceived /\ sdk.workletNode = "connected"

\* C36 as stated: whenever init() resolves on the worklet-mode SDK, the
\* worker has reported ready and the worklet node is connected, for the
\* first call, for a call made while an earlier one awaits the handshake
\* and for a call during which destroy() is called
C36_ResolvedMeansReady ==
    /\ sdk.pc = "done" => ReadyAndConnected
    /\ (api.last.op = "init" /\ api.last.result = "resolved")
          => ReadyAndConnected

\* ---------------------------------------------------------------------
\* C37  init() settles

\* the store waits for the init() of the worklet mode, which waits for the
\* worker's reply
InitPending ==
    /\ store.isLoading
    /\ store.pc = "worklet"
    /\ sdk.pc = "awaiting"
    /\ sdk.promise = "pending"

\* the worker runs no more and no reply of it is on its way
WorkerGone == wk.pc = "dead" /\ fromWorker = <<>>

\* C37 as stated: every init() settles and isLoading returns to false; the
\* handshake cannot wait for ever, also when the worker never replies, when
\* it fails before handling init and when destroy() terminates it during
\* the handshake: init() is never left pending on a worker that is gone
C37_InitSettles == ~(InitPending /\ WorkerGone)

\* ---------------------------------------------------------------------
\* C38  the render loop yields to the worker's messages

\* a set-volume or load-preset message waits in the worker's task queue
\* while the render loop runs
MessageWaits ==
    /\ wk.pc \in {"started", "rendering"}
    /\ toWorker # <<>>
    /\ Head(toWorker).type \in {"set-volume", "load-preset"}

\* the blocks that fill the audio buffer: the longest catch-up there can be
\* while the audio thread reads nothing
CatchUpBlocks == BlocksFor(AudioCap)

\* C38 as stated, in finite form: a message posted to the worker is handled
\* while the render loop runs, catch-up phases included: the loop returns
\* to the task queue after a bounded number of blocks, so a waiting message
\* never sees more blocks rendered in one task than fill the buffer
C38_YieldsToMessages == MessageWaits => wk.chain <= CatchUpBlocks

\* ---------------------------------------------------------------------------
\* C39: the audio store's initialize()
\* ---------------------------------------------------------------------------

\* an initialize() is between its guard and its finally
InFlight == store.pc # "idle"

\* an initialize() has run to its end without initialising the store
InitializeFailed == store.called /\ ~InFlight /\ ~store.isInitialized

\* everything of the store but the count of the calls
StoreFields == [store EXCEPT !.retries = 0]

\* C39: at most one initialize() is in flight, a call made while the store
\* is loading or initialised changing nothing; isLoading is true exactly
\* while an initialize() is in flight, hence false after every outcome; an
\* initialised store has no error and has its instance; a failed
\* initialize() leaves the store uninitialised with its error set; one call
\* makes at most two attempts, the second only after a first in the
\* worklet mode; and only a call on a store neither loading nor
\* initialised starts a run.
C39_StoreInitialize ==
    /\ [](store.isLoading <=> InFlight)
    /\ [](store.isInitialized =>
            /\ store.initializationError = "none"
            /\ store.vitalInstance # "none")
    /\ [](InitializeFailed => store.initializationError # "none")
    /\ [](store.attempts <= 2 /\ (store.attempts = 2 => ~store.forceScriptProcessor))
    /\ [][/\ (store.isLoading \/ store.isInitialized) /\ store.retries' # store.retries
             => /\ StoreFields' = StoreFields
                /\ UNCHANGED <<rbVars, abVars, hsVars, legacy, mainEngineLog>>
          /\ store.runs' # store.runs
             => /\ ~store.isLoading /\ ~store.isInitialized
                /\ store.isLoading' /\ store.attempts' = 1
                /\ store.initializationError' = "none"]_vars

\* the store initialised by its second run: the first run failed, the
\* retry ran and succeeded
C39_Witness ==
    /\ store.runs = 2
    /\ store.retries = 1
    /\ store.isInitialized
    /\ ~store.isLoading
    /\ store.vitalInstance # "none"

====
